---- MODULE Spec2Model ----
(***************************************************************************)
(* VibeSync room synchronisation engine (server.js, the socket.io part).   *)
(* One action per socket.io handler; every handler runs to completion on   *)
(* the single node.js thread, so an action is the whole handler.           *)
(***************************************************************************)
EXTENDS Integers, Sequences, FiniteSets, TLC

(***************************************************************************)
(* Bounds of the model.                                                    *)
(***************************************************************************)
MaxQueue == 2
MaxRequests == 2
MaxChat == 2
MaxTimers == 1
MaxCmds == 4

(***************************************************************************)
(* Program constants.                                                      *)
(***************************************************************************)
CodeLen == 4
NameLimit == 20
TextLimit == 200
ChatLimit == 100

(***************************************************************************)
(* Input domains.                                                          *)
(***************************************************************************)
Sockets == {"s1", "s2", "s3"}

chars == <<"A", "B", "C", "D", "E", "F", "G", "H", "I", "J", "K", "L", "M",
           "N", "O", "P", "Q", "R", "S", "T", "U", "V", "W", "X", "Y", "Z">>

lower == <<"a", "b", "c", "d", "e", "f", "g", "h", "i", "j", "k", "l", "m",
           "n", "o", "p", "q", "r", "s", "t", "u", "v", "w", "x", "y", "z">>

\* The outcomes of Math.floor(Math.random() * chars.length) the model draws:
\* one index per letter of a code.
Randoms == {<<1, 1, 1, 1>>, <<1, 1, 1, 2>>}

Tracks == {"T1", "T2"}
Null == "null"
Undefined == "undefined"
Emojis == {"fire"}

Str(n, c) == [i \in 1..n |-> c]

HostDefault == <<"H", "o", "s", "t">>
ListenerDefault == <<"L", "i", "s", "t", "e", "n", "e", "r">>

\* Names a client supplies: none, one padded with blanks, one too long.
NameInputs == {<<>>, <<" ", "B", "o", "b">>, Str(NameLimit + 1, "x")}

\* What a client may send where the handler expects a string or an object:
\* a JSON number in place of a string, and null in place of the payload.
NotString == <<"#number">>
NullPayload == <<"#null">>

\* Chat texts a client supplies: none, a short one, one too long.
TextInputs == {<<>>, <<"h", "i">>, Str(TextLimit + 1, "y")}

(***************************************************************************)
(* String helpers, computed as the JavaScript built-ins compute them.      *)
(***************************************************************************)
Min(a, b) == IF a < b THEN a ELSE b
Max(a, b) == IF a > b THEN a ELSE b

\* String.prototype.slice(0, n)
Slice0(str, n) == SubSeq(str, 1, Min(n, Len(str)))

RECURSIVE TrimStart(_)
TrimStart(str) ==
    IF str # <<>> /\ Head(str) = " " THEN TrimStart(Tail(str)) ELSE str

RECURSIVE TrimEnd(_)
TrimEnd(str) ==
    IF str # <<>> /\ str[Len(str)] = " "
    THEN TrimEnd(SubSeq(str, 1, Len(str) - 1))
    ELSE str

\* String.prototype.trim()
Trim(str) == TrimEnd(TrimStart(str))

\* One character of String.prototype.toUpperCase()
UpperOf ==
    [c \in {lower[i] : i \in 1..Len(lower)} |->
        chars[CHOOSE i \in 1..Len(lower) : lower[i] = c]]

UpperChar(c) == IF c \in DOMAIN UpperOf THEN UpperOf[c] ELSE c

ToUpperCase(str) == [i \in 1..Len(str) |-> UpperChar(str[i])]

\* (name || dflt).trim().slice(0, 20)
DisplayName(name, dflt) ==
    Slice0(Trim(IF name = <<>> THEN dflt ELSE name), NameLimit)

\* Array.prototype.splice(index, 1): the position (1-based) it removes, 0 if none.
SpliceStart(len, index) ==
    IF index < 0 THEN Max(len + index, 0) ELSE Min(index, len)

SplicePos(len, index) ==
    IF SpliceStart(len, index) < len THEN SpliceStart(len, index) + 1 ELSE 0

RemoveAt(seq, pos) ==
    IF pos = 0 THEN seq
    ELSE SubSeq(seq, 1, pos - 1) \o SubSeq(seq, pos + 1, Len(seq))

\* Mutant: an index past the end is clamped onto the last element.
Splice1_Clamp(seq, index) ==
    RemoveAt(seq, IF index >= Len(seq) THEN Len(seq)
                  ELSE SplicePos(Len(seq), index))

Splice1(seq, index) == RemoveAt(seq, SplicePos(Len(seq), index))

\* generateRoomCode with the random indices r
generateRoomCode(r) == [i \in 1..CodeLen |-> chars[r[i]]]

Codes == {generateRoomCode(r) : r \in Randoms}

\* Room codes a client may put in a command: the live spelling, a lower-case
\* spelling, and a code no room has.
LowerCodes == {[i \in 1..CodeLen |-> lower[r[i]]] : r \in Randoms}
UnknownCode == <<"Z", "Z", "Z", "Z">>
CodeInputs == Codes \cup LowerCodes \cup {UnknownCode}


(***************************************************************************)
(* State.                                                                  *)
(*   conn     : lifecycle of each connection ("new", "open", "closed")     *)
(*   rooms    : the registry `rooms`, a map from live code to room         *)
(*   roomKeys : the keys of `rooms` in insertion order (Object.entries)    *)
(*   sio      : the socket.io adapter rooms, code -> sockets joined        *)
(*   timers   : pending setTimeout callbacks, oldest first                 *)
(*   cmd      : the event the last step handled                            *)
(*   out      : what the last step emitted, in order (ack included)        *)
(*   ncmd     : commands handled so far (trace specification only)         *)
(*   inbox    : per socket, every event delivered to it, in order (trace   *)
(*              specification only)                                        *)
(*   page     : the host's page (page.tsx): its refs, its player and what  *)
(*              it emitted in the last step (client specification only)    *)
(*   wire     : commands a client has sent and the server has not handled  *)
(*              yet, with the room as it was when they were sent           *)
(*              (linearization specification only)                         *)
(***************************************************************************)
VARIABLES conn, rooms, roomKeys, sio, timers, cmd, out, ncmd, inbox, page,
          wire

engine == <<conn, rooms, roomKeys, sio, timers>>
vars ==
    <<conn, rooms, roomKeys, sio, timers, cmd, out, ncmd, inbox, page, wire>>
server == <<conn, rooms, roomKeys, sio, timers, cmd, out, ncmd, inbox, wire>>

\* The host's page with its player ready and paused, nothing pending.
\*   isSyncingRef : isSyncingRef.current
\*   isPlaying    : the isPlaying state of the component
\*   player       : the state of the YouTube player behind playerRef
\*   events       : state changes of the player not yet handed to
\*                  onStateChange, each with what caused it
\*   timeouts     : pending setTimeout(() => isSyncingRef.current = false)
\*   clicks       : host actions and received commands so far
\*   emitted      : what the last step passed to socket.emit
PageIdle ==
    [isSyncingRef |-> FALSE, isPlaying |-> FALSE, player |-> "paused",
     events |-> <<>>, timeouts |-> 0, clicks |-> 0, emitted |-> <<>>]

\* rooms[roomCode] is truthy
Live(roomCode) == roomCode \in DOMAIN rooms

\* room.users.has(id)
HasUser(room, id) == \E i \in 1..Len(room.users) : room.users[i].id = id

\* room.users.get(id)
GetUser(room, id) ==
    room.users[CHOOSE i \in 1..Len(room.users) : room.users[i].id = id].name

\* room.users.set(id, name): a Map keeps the position of a key it already has
SetUser(users, id, name) ==
    IF \E i \in 1..Len(users) : users[i].id = id
    THEN [i \in 1..Len(users) |->
             IF users[i].id = id THEN [id |-> id, name |-> name] ELSE users[i]]
    ELSE Append(users, [id |-> id, name |-> name])

\* room.users.delete(id)
DeleteUser(users, id) ==
    IF \E i \in 1..Len(users) : users[i].id = id
    THEN RemoveAt(users, CHOOSE i \in 1..Len(users) : users[i].id = id)
    ELSE users

UserIds(room) == {room.users[i].id : i \in 1..Len(room.users)}

\* getRoomUsers(roomCode), read from the registry rs
getRoomUsers(rs, roomCode) ==
    IF roomCode \notin DOMAIN rs THEN <<>>
    ELSE [i \in 1..Len(rs[roomCode].users) |->
             [name |-> rs[roomCode].users[i].name,
              isHost |-> rs[roomCode].users[i].id = rs[roomCode].host]]

\* Mutant: io.emit, every socket in any adapter room
IoTo_Everyone(adapter, roomCode) ==
    UNION {adapter[c] : c \in DOMAIN adapter}

\* io.to(roomCode): every socket in the adapter room
IoTo(adapter, roomCode) ==
    IF roomCode \in DOMAIN adapter THEN adapter[roomCode] ELSE {}

\* socket.to(roomCode): the adapter room without the sender
SocketTo(adapter, s, roomCode) == IoTo(adapter, roomCode) \ {s}

\* io.to(socketId): the private room of one connected socket
IoToSocket(c, id) == IF c[id] = "open" THEN {id} ELSE {}

\* socket.join(roomCode)
SocketJoin(adapter, s, roomCode) ==
    [adapter EXCEPT ![roomCode] = @ \cup {s}]

\* rooms[roomCode] = room
PutRoom(roomCode, room) ==
    [c \in DOMAIN rooms \cup {roomCode} |->
        IF c = roomCode THEN room ELSE rooms[c]]

\* rooms[roomCode] with some fields replaced
SetRoom(roomCode, room) == [rooms EXCEPT ![roomCode] = room]

IsHostOf(s, roomCode) == Live(roomCode) /\ rooms[roomCode].host = s

\* The event a step handles, as the handler sees it: its name, the sending
\* socket and the room code it carries. A handler that gets past its guard
\* also records the argument it used (Did).
Note(op, s, roomCode) == cmd' = [op |-> op, s |-> s, roomCode |-> roomCode]

Did(op, s, roomCode, arg) ==
    cmd' = [op |-> op, s |-> s, roomCode |-> roomCode, arg |-> arg]

\* create_room and join_room record whether the client passed a callback.
NoteAck(op, s, roomCode, ack) ==
    cmd' = [op |-> op, s |-> s, roomCode |-> roomCode, ack |-> ack]

\* Nothing emitted, nothing changed.
Ignore == out' = <<>> /\ UNCHANGED engine

\* A handler that returns at its guard.
Dropped(op, s, roomCode) == Note(op, s, roomCode) /\ Ignore

\* A handler that throws: the TypeError leaves the listener uncaught (no
\* handler has a try/catch, the process has no uncaughtException hook).
Raise == out' = <<[ev |-> "uncaughtException", to |-> {}]>> /\ UNCHANGED engine

Throws(op, s, roomCode) == Note(op, s, roomCode) /\ Raise

Init ==
    /\ conn = [s \in Sockets |-> "new"]
    /\ rooms = [c \in {} |-> 0]
    /\ roomKeys = <<>>
    /\ sio = [c \in Codes |-> {}]
    /\ timers = <<>>
    /\ cmd = [op |-> "none", s |-> "none", roomCode |-> <<>>]
    /\ out = <<>>
    /\ ncmd = 0
    /\ inbox = [s \in Sockets |-> <<>>]
    /\ page = PageIdle
    /\ wire = <<>>

\* io.on('connection')
connection(s) ==
    /\ conn[s] = "new"
    /\ conn' = [conn EXCEPT ![s] = "open"]
    /\ Note("connection", s, <<>>)
    /\ out' = <<>>
    /\ UNCHANGED <<rooms, roomKeys, sio, timers>>

\* Mutant: the first draw is taken, whether or not a room has that code.
CreateAs_NoRetry(s, displayName, roomCode) ==
    /\ rooms' = PutRoom(roomCode,
           [host |-> s, users |-> <<[id |-> s, name |-> displayName]>>,
            currentTrack |-> Null, queue |-> <<>>, messages |-> <<>>,
            requests |-> <<>>])
    /\ roomKeys' = IF Live(roomCode) THEN roomKeys
                   ELSE Append(roomKeys, roomCode)
    /\ sio' = SocketJoin(sio, s, roomCode)
    /\ out' = <<[ev |-> "ack", to |-> {s}, success |-> TRUE,
                 roomCode |-> roomCode, isHost |-> TRUE],
                [ev |-> "room_users", to |-> IoTo(sio', roomCode),
                 users |-> getRoomUsers(rooms', roomCode)]>>
    /\ UNCHANGED <<conn, timers>>

\* create_room past the callback guard; r is the draw that leaves the
\* do-while loop, so the code it gives names no live room.
CreateAs(s, displayName, roomCode) ==
    /\ ~Live(roomCode)
    /\ rooms' = PutRoom(roomCode,
           [host |-> s, users |-> <<[id |-> s, name |-> displayName]>>,
            currentTrack |-> Null, queue |-> <<>>, messages |-> <<>>,
            requests |-> <<>>])
    /\ roomKeys' = Append(roomKeys, roomCode)
    /\ sio' = SocketJoin(sio, s, roomCode)
    /\ out' = <<[ev |-> "ack", to |-> {s}, success |-> TRUE,
                 roomCode |-> roomCode, isHost |-> TRUE],
                [ev |-> "room_users", to |-> IoTo(sio', roomCode),
                 users |-> getRoomUsers(rooms', roomCode)]>>
    /\ UNCHANGED <<conn, timers>>

\* The parameter `{ name } = {}` destructures the payload before the body
\* runs: null has no properties to read. A name that is not a string has no
\* trim().
create_room(s, name, ack, r) ==
    /\ conn[s] = "open"
    /\ IF name = NullPayload THEN Throws("create_room", s, <<>>)
       ELSE /\ NoteAck("create_room", s, <<>>, ack)
            /\ IF ~ack THEN Ignore
               ELSE IF name = NotString THEN Raise
               ELSE CreateAs(s, DisplayName(name, HostDefault),
                             generateRoomCode(r))

\* Mutant: a miss returns without calling the callback.
JoinAs_SilentMiss(s, roomCode, displayName) ==
    /\ IF Live(roomCode)
       THEN /\ rooms' = SetRoom(roomCode,
                   [rooms[roomCode] EXCEPT
                       !.users = SetUser(@, s, displayName)])
            /\ sio' = SocketJoin(sio, s, roomCode)
            /\ out' = <<[ev |-> "ack", to |-> {s}, success |-> TRUE,
                         roomCode |-> roomCode, isHost |-> FALSE,
                         currentTrack |-> rooms'[roomCode].currentTrack,
                         queue |-> rooms'[roomCode].queue,
                         messages |-> rooms'[roomCode].messages,
                         requests |-> rooms'[roomCode].requests],
                        [ev |-> "room_users", to |-> IoTo(sio', roomCode),
                         users |-> getRoomUsers(rooms', roomCode)],
                        [ev |-> "user_joined",
                         to |-> SocketTo(sio', s, roomCode)]>>
            /\ UNCHANGED <<conn, roomKeys, timers>>
       ELSE Ignore

\* Mutant: the snapshot carries an empty queue instead of the room's.
JoinAs_EmptyQueue(s, roomCode, displayName) ==
    /\ IF Live(roomCode)
       THEN /\ rooms' = SetRoom(roomCode,
                   [rooms[roomCode] EXCEPT
                       !.users = SetUser(@, s, displayName)])
            /\ sio' = SocketJoin(sio, s, roomCode)
            /\ out' = <<[ev |-> "ack", to |-> {s}, success |-> TRUE,
                         roomCode |-> roomCode, isHost |-> FALSE,
                         currentTrack |-> rooms'[roomCode].currentTrack,
                         queue |-> <<>>,
                         messages |-> rooms'[roomCode].messages,
                         requests |-> rooms'[roomCode].requests],
                        [ev |-> "room_users", to |-> IoTo(sio', roomCode),
                         users |-> getRoomUsers(rooms', roomCode)],
                        [ev |-> "user_joined",
                         to |-> SocketTo(sio', s, roomCode)]>>
            /\ UNCHANGED <<conn, roomKeys, timers>>
       ELSE /\ out' = <<[ev |-> "ack", to |-> {s}, success |-> FALSE,
                         message |-> "Room not found or expired."]>>
            /\ UNCHANGED engine

\* join_room past the callback guard, the code normalised, the name clamped
JoinAs(s, roomCode, displayName) ==
    /\ IF Live(roomCode)
       THEN /\ rooms' = SetRoom(roomCode,
                   [rooms[roomCode] EXCEPT
                       !.users = SetUser(@, s, displayName)])
            /\ sio' = SocketJoin(sio, s, roomCode)
            /\ out' = <<[ev |-> "ack", to |-> {s}, success |-> TRUE,
                         roomCode |-> roomCode, isHost |-> FALSE,
                         currentTrack |-> rooms'[roomCode].currentTrack,
                         queue |-> rooms'[roomCode].queue,
                         messages |-> rooms'[roomCode].messages,
                         requests |-> rooms'[roomCode].requests],
                        [ev |-> "room_users", to |-> IoTo(sio', roomCode),
                         users |-> getRoomUsers(rooms', roomCode)],
                        [ev |-> "user_joined",
                         to |-> SocketTo(sio', s, roomCode)]>>
            /\ UNCHANGED <<conn, roomKeys, timers>>
       ELSE /\ out' = <<[ev |-> "ack", to |-> {s}, success |-> FALSE,
                         message |-> "Room not found or expired."]>>
            /\ UNCHANGED engine

\* As create_room; a code that is not a string has no toUpperCase().
join_room(s, code, name, ack) ==
    /\ conn[s] = "open"
    /\ IF name = NullPayload THEN Throws("join_room", s, <<>>)
       ELSE /\ NoteAck("join_room", s, code, ack)
            /\ IF ~ack THEN Ignore
               ELSE IF code = NotString \/ name = NotString THEN Raise
               ELSE JoinAs(s, ToUpperCase(code),
                           DisplayName(name, ListenerDefault))

\* The callback track_ended hands to setTimeout, recorded by what it will
\* emit; s is the socket whose handler set it, n the command that set it.
PlayLater(s, roomCode, n) ==
    [roomCode |-> roomCode, s |-> s, n |-> n, ev |-> "play", time |-> 0]

\* Mutant: the track is stored at once but announced from a timer.
load_track_Deferred(s, roomCode, trackData) ==
    /\ conn[s] = "open"
    /\ IF IsHostOf(s, roomCode)
       THEN /\ Did("load_track", s, roomCode, trackData)
            /\ rooms' = SetRoom(roomCode,
                   [rooms[roomCode] EXCEPT !.currentTrack = trackData])
            /\ out' = <<>>
            /\ timers' = Append(timers,
                   [PlayLater(s, roomCode, ncmd') EXCEPT !.ev = "load_track"])
            /\ UNCHANGED <<conn, roomKeys, sio>>
       ELSE Dropped("load_track", s, roomCode)

load_track(s, roomCode, trackData) ==
    /\ conn[s] = "open"
    /\ IF IsHostOf(s, roomCode)
       THEN /\ Did("load_track", s, roomCode, trackData)
            /\ rooms' = SetRoom(roomCode,
                   [rooms[roomCode] EXCEPT !.currentTrack = trackData])
            /\ out' = <<[ev |-> "load_track", to |-> SocketTo(sio, s, roomCode),
                         track |-> trackData]>>
            /\ UNCHANGED <<conn, roomKeys, sio, timers>>
       ELSE Dropped("load_track", s, roomCode)

\* Mutant: the relay uses io.to, so the sender gets its own command back.
Relay_Echo(op, s, roomCode, time) ==
    /\ conn[s] = "open"
    /\ IF IsHostOf(s, roomCode)
       THEN /\ Did(op, s, roomCode, time)
            /\ out' = <<[ev |-> op, to |-> IoTo(sio, roomCode),
                         time |-> time]>>
            /\ UNCHANGED engine
       ELSE Dropped(op, s, roomCode)

\* play, pause and seek differ in the event name only
Relay(op, s, roomCode, time) ==
    /\ conn[s] = "open"
    /\ IF IsHostOf(s, roomCode)
       THEN /\ Did(op, s, roomCode, time)
            /\ out' = <<[ev |-> op, to |-> SocketTo(sio, s, roomCode),
                         time |-> time]>>
            /\ UNCHANGED engine
       ELSE Dropped(op, s, roomCode)

play(s, roomCode, time) == Relay("play", s, roomCode, time)

pause(s, roomCode, time) == Relay("pause", s, roomCode, time)

seek(s, roomCode, time) == Relay("seek", s, roomCode, time)

\* add_to_queue that starts the track at once when the room plays nothing
add_to_queue_PlayIfIdle(s, roomCode, trackData) ==
    /\ conn[s] = "open"
    /\ IF IsHostOf(s, roomCode) /\ trackData # Undefined
       THEN /\ Len(rooms[roomCode].queue) < MaxQueue
            /\ Did("add_to_queue", s, roomCode, trackData)
            /\ rooms' = SetRoom(roomCode,
                   IF rooms[roomCode].currentTrack = Null
                   THEN [rooms[roomCode] EXCEPT !.currentTrack = trackData]
                   ELSE [rooms[roomCode] EXCEPT !.queue = Append(@, trackData)])
            /\ out' = <<[ev |-> "queue_update", to |-> IoTo(sio, roomCode),
                         queue |-> rooms'[roomCode].queue]>>
            /\ UNCHANGED <<conn, roomKeys, sio, timers>>
       ELSE Dropped("add_to_queue", s, roomCode)

\* add_to_queue that puts the track at the head of the queue
add_to_queue_Front(s, roomCode, trackData) ==
    /\ conn[s] = "open"
    /\ IF IsHostOf(s, roomCode) /\ trackData # Undefined
       THEN /\ Len(rooms[roomCode].queue) < MaxQueue
            /\ Did("add_to_queue", s, roomCode, trackData)
            /\ rooms' = SetRoom(roomCode,
                   [rooms[roomCode] EXCEPT !.queue = <<trackData>> \o @])
            /\ out' = <<[ev |-> "queue_update", to |-> IoTo(sio, roomCode),
                         queue |-> rooms'[roomCode].queue]>>
            /\ UNCHANGED <<conn, roomKeys, sio, timers>>
       ELSE Dropped("add_to_queue", s, roomCode)



add_to_queue(s, roomCode, trackData) ==
    /\ conn[s] = "open"
    /\ IF IsHostOf(s, roomCode) /\ trackData # Undefined
       THEN /\ Len(rooms[roomCode].queue) < MaxQueue
            /\ Did("add_to_queue", s, roomCode, trackData)
            /\ rooms' = SetRoom(roomCode,
                   [rooms[roomCode] EXCEPT !.queue = Append(@, trackData)])
            /\ out' = <<[ev |-> "queue_update", to |-> IoTo(sio, roomCode),
                         queue |-> rooms'[roomCode].queue]>>
            /\ UNCHANGED <<conn, roomKeys, sio, timers>>
       ELSE Dropped("add_to_queue", s, roomCode)

\* Mutant: the guard only asks for a live room, not for the host.
remove_from_queue_Anyone(s, roomCode, index) ==
    /\ conn[s] = "open"
    /\ IF Live(roomCode)
       THEN /\ Did("remove_from_queue", s, roomCode, index)
            /\ rooms' = SetRoom(roomCode,
                   [rooms[roomCode] EXCEPT !.queue = Splice1(@, index)])
            /\ out' = <<[ev |-> "queue_update", to |-> IoTo(sio, roomCode),
                         queue |-> rooms'[roomCode].queue]>>
            /\ UNCHANGED <<conn, roomKeys, sio, timers>>
       ELSE Dropped("remove_from_queue", s, roomCode)

remove_from_queue(s, roomCode, index) ==
    /\ conn[s] = "open"
    /\ IF IsHostOf(s, roomCode)
       THEN /\ Did("remove_from_queue", s, roomCode, index)
            /\ rooms' = SetRoom(roomCode,
                   [rooms[roomCode] EXCEPT !.queue = Splice1(@, index)])
            /\ out' = <<[ev |-> "queue_update", to |-> IoTo(sio, roomCode),
                         queue |-> rooms'[roomCode].queue]>>
            /\ UNCHANGED <<conn, roomKeys, sio, timers>>
       ELSE Dropped("remove_from_queue", s, roomCode)

\* Mutant: load_track and queue_update go to the others only (socket.to).
Advance_Others(s, roomCode) ==
    LET next == Head(rooms[roomCode].queue)
    IN  /\ Len(timers) < MaxTimers
        /\ Did("track_ended", s, roomCode, next)
        /\ rooms' = SetRoom(roomCode,
               [rooms[roomCode] EXCEPT
                   !.queue = Tail(@), !.currentTrack = next])
        /\ out' = <<[ev |-> "load_track", to |-> SocketTo(sio, s, roomCode),
                     track |-> next],
                    [ev |-> "queue_update", to |-> SocketTo(sio, s, roomCode),
                     queue |-> rooms'[roomCode].queue]>>
        /\ timers' = Append(timers, PlayLater(s, roomCode, ncmd'))
        /\ UNCHANGED <<conn, roomKeys, sio>>

\* Mutant: the front entry becomes current and stays in the queue.
Advance_KeepHead(s, roomCode) ==
    LET next == Head(rooms[roomCode].queue)
    IN  /\ Len(timers) < MaxTimers
        /\ Did("track_ended", s, roomCode, next)
        /\ rooms' = SetRoom(roomCode,
               [rooms[roomCode] EXCEPT !.currentTrack = next])
        /\ out' = <<[ev |-> "load_track", to |-> IoTo(sio, roomCode),
                     track |-> next],
                    [ev |-> "queue_update", to |-> IoTo(sio, roomCode),
                     queue |-> rooms'[roomCode].queue]>>
        /\ timers' = Append(timers, PlayLater(s, roomCode, ncmd'))
        /\ UNCHANGED <<conn, roomKeys, sio>>

\* track_ended with a queue: the front entry becomes the current track
Advance(s, roomCode) ==
    LET next == Head(rooms[roomCode].queue)
    IN  /\ Len(timers) < MaxTimers
        /\ Did("track_ended", s, roomCode, next)
        /\ rooms' = SetRoom(roomCode,
               [rooms[roomCode] EXCEPT
                   !.queue = Tail(@), !.currentTrack = next])
        /\ out' = <<[ev |-> "load_track", to |-> IoTo(sio, roomCode),
                     track |-> next],
                    [ev |-> "queue_update", to |-> IoTo(sio, roomCode),
                     queue |-> rooms'[roomCode].queue]>>
        /\ timers' = Append(timers, PlayLater(s, roomCode, ncmd'))
        /\ UNCHANGED <<conn, roomKeys, sio>>

\* Mutant: the cleared track is announced to the room.
ClearTrack_Announce(s, roomCode) ==
    /\ Did("track_ended", s, roomCode, Null)
    /\ rooms' = SetRoom(roomCode,
           [rooms[roomCode] EXCEPT !.currentTrack = Null])
    /\ out' = <<[ev |-> "load_track", to |-> IoTo(sio, roomCode),
                 track |-> Null]>>
    /\ UNCHANGED <<conn, roomKeys, sio, timers>>

\* track_ended with an empty queue
ClearTrack(s, roomCode) ==
    /\ Did("track_ended", s, roomCode, Null)
    /\ rooms' = SetRoom(roomCode,
           [rooms[roomCode] EXCEPT !.currentTrack = Null])
    /\ out' = <<>>
    /\ UNCHANGED <<conn, roomKeys, sio, timers>>

track_ended(s, roomCode) ==
    /\ conn[s] = "open"
    /\ IF ~IsHostOf(s, roomCode) THEN Dropped("track_ended", s, roomCode)
       ELSE IF Len(rooms[roomCode].queue) > 0 THEN Advance(s, roomCode)
       ELSE ClearTrack(s, roomCode)

\* A setTimeout callback runs; timers of one delay run in the order they
\* were set.
timeout ==
    /\ timers # <<>>
    /\ Did("timeout", Head(timers).s, Head(timers).roomCode, Head(timers).n)
    /\ timers' = Tail(timers)
    /\ out' = <<[ev |-> Head(timers).ev,
                 to |-> IoTo(sio, Head(timers).roomCode),
                 time |-> Head(timers).time]>>
    /\ UNCHANGED <<conn, rooms, roomKeys, sio>>

\* Mutant: the whole history is broadcast, not the new message.
send_message_History(s, roomCode, text, now) ==
    /\ conn[s] = "open"
    /\ IF ~Live(roomCode) \/ text = <<>>
       THEN Dropped("send_message", s, roomCode)
       ELSE IF ~HasUser(rooms[roomCode], s)
       THEN Dropped("send_message", s, roomCode)
       ELSE LET room == rooms[roomCode]
                msg == [name |-> GetUser(room, s),
                        text |-> Slice0(text, TextLimit), time |-> now]
                pushed == Append(room.messages, msg)
            IN  /\ Did("send_message", s, roomCode, text)
                /\ rooms' = SetRoom(roomCode,
                       [room EXCEPT !.messages =
                           IF Len(pushed) > ChatLimit THEN Tail(pushed)
                           ELSE pushed])
                /\ out' = <<[ev |-> "chat_message", to |-> IoTo(sio, roomCode),
                             msg |-> rooms'[roomCode].messages]>>
                /\ UNCHANGED <<conn, roomKeys, sio, timers>>

\* Mutant: at the cap the new message is the one that is dropped.
send_message_DropNewest(s, roomCode, text, now) ==
    /\ conn[s] = "open"
    /\ IF ~Live(roomCode) \/ text = <<>>
       THEN Dropped("send_message", s, roomCode)
       ELSE IF ~HasUser(rooms[roomCode], s)
       THEN Dropped("send_message", s, roomCode)
       ELSE LET room == rooms[roomCode]
                msg == [name |-> GetUser(room, s),
                        text |-> Slice0(text, TextLimit), time |-> now]
                pushed == Append(room.messages, msg)
            IN  /\ Did("send_message", s, roomCode, text)
                /\ rooms' = SetRoom(roomCode,
                       [room EXCEPT !.messages =
                           IF Len(pushed) > ChatLimit
                           THEN SubSeq(pushed, 1, ChatLimit)
                           ELSE pushed])
                /\ out' = <<[ev |-> "chat_message", to |-> IoTo(sio, roomCode),
                             msg |-> msg]>>
                /\ UNCHANGED <<conn, roomKeys, sio, timers>>

send_message(s, roomCode, text, now) ==
    /\ conn[s] = "open"
    /\ IF text = NullPayload THEN Throws("send_message", s, <<>>)
       ELSE IF ~Live(roomCode) \/ text = <<>>
       THEN Dropped("send_message", s, roomCode)
       ELSE IF ~HasUser(rooms[roomCode], s)
       THEN Dropped("send_message", s, roomCode)
       ELSE LET room == rooms[roomCode]
                msg == [name |-> GetUser(room, s),
                        text |-> Slice0(text, TextLimit), time |-> now]
                pushed == Append(room.messages, msg)
            IN  /\ Did("send_message", s, roomCode, text)
                /\ rooms' = SetRoom(roomCode,
                       [room EXCEPT !.messages =
                           IF Len(pushed) > ChatLimit THEN Tail(pushed)
                           ELSE pushed])
                /\ out' = <<[ev |-> "chat_message", to |-> IoTo(sio, roomCode),
                             msg |-> msg]>>
                /\ UNCHANGED <<conn, roomKeys, sio, timers>>

\* Mutant: the reaction is also kept in the chat history.
send_reaction_Stored(s, roomCode, emoji) ==
    /\ conn[s] = "open"
    /\ IF ~Live(roomCode) \/ emoji = Undefined
       THEN Dropped("send_reaction", s, roomCode)
       ELSE IF ~HasUser(rooms[roomCode], s)
       THEN Dropped("send_reaction", s, roomCode)
       ELSE /\ Did("send_reaction", s, roomCode, emoji)
            /\ out' = <<[ev |-> "reaction", to |-> IoTo(sio, roomCode),
                         emoji |-> emoji]>>
            /\ rooms' = SetRoom(roomCode,
                   [rooms[roomCode] EXCEPT !.messages =
                       Append(@, [name |-> GetUser(rooms[roomCode], s),
                                  text |-> <<emoji>>, time |-> 0])])
            /\ UNCHANGED <<conn, roomKeys, sio, timers>>

send_reaction(s, roomCode, emoji) ==
    /\ conn[s] = "open"
    /\ IF ~Live(roomCode) \/ emoji = Undefined
       THEN Dropped("send_reaction", s, roomCode)
       ELSE IF ~HasUser(rooms[roomCode], s)
       THEN Dropped("send_reaction", s, roomCode)
       ELSE /\ Did("send_reaction", s, roomCode, emoji)
            /\ out' = <<[ev |-> "reaction", to |-> IoTo(sio, roomCode),
                         emoji |-> emoji]>>
            /\ UNCHANGED engine

\* Mutant: the host may file requests too.
request_track_HostToo(s, roomCode, trackData) ==
    /\ conn[s] = "open"
    /\ IF ~Live(roomCode) \/ trackData = Undefined
       THEN Dropped("request_track", s, roomCode)
       ELSE IF ~HasUser(rooms[roomCode], s)
       THEN Dropped("request_track", s, roomCode)
       ELSE LET room == rooms[roomCode]
                name == GetUser(room, s)
            IN  /\ Len(room.requests) < MaxRequests
                /\ Did("request_track", s, roomCode, trackData)
                /\ rooms' = SetRoom(roomCode,
                       [room EXCEPT !.requests =
                           Append(@, [track |-> trackData, requestedBy |-> name])])
                /\ out' = <<[ev |-> "requests_update", to |-> IoTo(sio, roomCode),
                             requests |-> rooms'[roomCode].requests]>>
                /\ UNCHANGED <<conn, roomKeys, sio, timers>>

\* Mutant: the entry carries the host's name, not the requester's.
request_track_HostName(s, roomCode, trackData) ==
    /\ conn[s] = "open"
    /\ IF ~Live(roomCode) \/ trackData = Undefined
       THEN Dropped("request_track", s, roomCode)
       ELSE IF ~HasUser(rooms[roomCode], s) \/ rooms[roomCode].host = s
       THEN Dropped("request_track", s, roomCode)
       ELSE LET room == rooms[roomCode]
                name == GetUser(room, room.host)
            IN  /\ Len(room.requests) < MaxRequests
                /\ Did("request_track", s, roomCode, trackData)
                /\ rooms' = SetRoom(roomCode,
                       [room EXCEPT !.requests =
                           Append(@, [track |-> trackData, requestedBy |-> name])])
                /\ out' = <<[ev |-> "requests_update", to |-> IoTo(sio, roomCode),
                             requests |-> rooms'[roomCode].requests]>>
                /\ UNCHANGED <<conn, roomKeys, sio, timers>>

request_track(s, roomCode, trackData) ==
    /\ conn[s] = "open"
    /\ IF ~Live(roomCode) \/ trackData = Undefined
       THEN Dropped("request_track", s, roomCode)
       ELSE IF ~HasUser(rooms[roomCode], s) \/ rooms[roomCode].host = s
       THEN Dropped("request_track", s, roomCode)
       ELSE LET room == rooms[roomCode]
                name == GetUser(room, s)
            IN  /\ Len(room.requests) < MaxRequests
                /\ Did("request_track", s, roomCode, trackData)
                /\ rooms' = SetRoom(roomCode,
                       [room EXCEPT !.requests =
                           Append(@, [track |-> trackData, requestedBy |-> name])])
                /\ out' = <<[ev |-> "requests_update", to |-> IoTo(sio, roomCode),
                             requests |-> rooms'[roomCode].requests]>>
                /\ UNCHANGED <<conn, roomKeys, sio, timers>>

\* Mutant: play-now loads the track but keeps the queue.
approve_request_KeepQueue(s, roomCode, index, addToQueue) ==
    /\ conn[s] = "open"
    /\ IF ~IsHostOf(s, roomCode)
       THEN Dropped("approve_request", s, roomCode)
       ELSE IF SplicePos(Len(rooms[roomCode].requests), index) = 0
       THEN /\ Did("approve_request", s, roomCode, index)
            /\ out' = <<>>
            /\ UNCHANGED engine
       ELSE LET room == rooms[roomCode]
                req == room.requests[SplicePos(Len(room.requests), index)]
                left == Splice1(room.requests, index)
                trackData == req.track
            IN  /\ Did("approve_request", s, roomCode, index)
                /\ IF addToQueue
                   THEN /\ Len(room.queue) < MaxQueue
                        /\ rooms' = SetRoom(roomCode,
                               [room EXCEPT !.requests = left,
                                            !.queue = Append(@, trackData)])
                        /\ out' = <<[ev |-> "queue_update",
                                     to |-> IoTo(sio, roomCode),
                                     queue |-> rooms'[roomCode].queue],
                                    [ev |-> "requests_update",
                                     to |-> IoTo(sio, roomCode),
                                     requests |-> left]>>
                   ELSE /\ rooms' = SetRoom(roomCode,
                               [room EXCEPT !.requests = left,
                                            !.currentTrack = trackData])
                        /\ out' = <<[ev |-> "load_track",
                                     to |-> IoTo(sio, roomCode),
                                     track |-> trackData],
                                    [ev |-> "queue_update",
                                     to |-> IoTo(sio, roomCode),
                                     queue |-> room.queue],
                                    [ev |-> "requests_update",
                                     to |-> IoTo(sio, roomCode),
                                     requests |-> left]>>
                /\ UNCHANGED <<conn, roomKeys, sio, timers>>

approve_request(s, roomCode, index, addToQueue) ==
    /\ conn[s] = "open"
    /\ IF ~IsHostOf(s, roomCode)
       THEN Dropped("approve_request", s, roomCode)
       ELSE IF SplicePos(Len(rooms[roomCode].requests), index) = 0
       THEN /\ Did("approve_request", s, roomCode, index)
            /\ out' = <<>>
            /\ UNCHANGED engine
       ELSE LET room == rooms[roomCode]
                req == room.requests[SplicePos(Len(room.requests), index)]
                left == Splice1(room.requests, index)
                trackData == req.track
            IN  /\ Did("approve_request", s, roomCode, index)
                /\ IF addToQueue
                   THEN /\ Len(room.queue) < MaxQueue
                        /\ rooms' = SetRoom(roomCode,
                               [room EXCEPT !.requests = left,
                                            !.queue = Append(@, trackData)])
                        /\ out' = <<[ev |-> "queue_update",
                                     to |-> IoTo(sio, roomCode),
                                     queue |-> rooms'[roomCode].queue],
                                    [ev |-> "requests_update",
                                     to |-> IoTo(sio, roomCode),
                                     requests |-> left]>>
                   ELSE /\ rooms' = SetRoom(roomCode,
                               [room EXCEPT !.requests = left,
                                            !.currentTrack = trackData,
                                            !.queue = <<>>])
                        /\ out' = <<[ev |-> "load_track",
                                     to |-> IoTo(sio, roomCode),
                                     track |-> trackData],
                                    [ev |-> "queue_update",
                                     to |-> IoTo(sio, roomCode),
                                     queue |-> <<>>],
                                    [ev |-> "requests_update",
                                     to |-> IoTo(sio, roomCode),
                                     requests |-> left]>>
                /\ UNCHANGED <<conn, roomKeys, sio, timers>>

\* Mutant: rejecting also unloads the current track.
reject_request_Unload(s, roomCode, index) ==
    /\ conn[s] = "open"
    /\ IF ~IsHostOf(s, roomCode) THEN Dropped("reject_request", s, roomCode)
       ELSE /\ Did("reject_request", s, roomCode, index)
            /\ rooms' = SetRoom(roomCode,
                   [rooms[roomCode] EXCEPT !.requests = Splice1(@, index),
                                           !.currentTrack = Null])
            /\ out' = <<[ev |-> "requests_update", to |-> IoTo(sio, roomCode),
                         requests |-> rooms'[roomCode].requests]>>
            /\ UNCHANGED <<conn, roomKeys, sio, timers>>

reject_request(s, roomCode, index) ==
    /\ conn[s] = "open"
    /\ IF ~IsHostOf(s, roomCode) THEN Dropped("reject_request", s, roomCode)
       ELSE /\ Did("reject_request", s, roomCode, index)
            /\ rooms' = SetRoom(roomCode,
                   [rooms[roomCode] EXCEPT !.requests = Splice1(@, index)])
            /\ out' = <<[ev |-> "requests_update", to |-> IoTo(sio, roomCode),
                         requests |-> rooms'[roomCode].requests]>>
            /\ UNCHANGED <<conn, roomKeys, sio, timers>>

(***************************************************************************)
(* disconnect: socket.io has already taken the socket out of every adapter *)
(* room when the handler runs; the handler then walks Object.entries(rooms).*)
(***************************************************************************)
\* Mutant: the host field is left pointing at the socket that went away.
LeaveRoom_KeepHost(room, s) ==
    [room EXCEPT !.users = DeleteUser(room.users, s)]

\* Mutant: the pending requests leave with the old host.
LeaveRoom_DropRequests(room, s) ==
    LET users == DeleteUser(room.users, s)
    IN  [room EXCEPT !.users = users,
                     !.host = IF room.host = s /\ users # <<>>
                              THEN users[1].id ELSE @,
                     !.requests = IF room.host = s THEN <<>> ELSE @]

\* The room after one iteration of the loop (its users may be empty).
LeaveRoom(room, s) ==
    LET users == DeleteUser(room.users, s)
    IN  [room EXCEPT !.users = users,
                     !.host = IF room.host = s /\ users # <<>>
                              THEN users[1].id ELSE @]

\* Mutant: host_transferred goes to the whole room, not to the new host.
LeaveEmits_ToRoom(roomCode, s, adapter, c) ==
    LET room == rooms[roomCode]
        after == LeaveRoom(room, s)
        list == [i \in 1..Len(after.users) |->
                    [name |-> after.users[i].name,
                     isHost |-> after.users[i].id = after.host]]
    IN  IF ~HasUser(room, s) \/ after.users = <<>> THEN <<>>
        ELSE (IF room.host = s
              THEN <<[ev |-> "host_transferred",
                      to |-> IoTo(adapter, roomCode)]>>
              ELSE <<>>)
             \o <<[ev |-> "room_users", to |-> IoTo(adapter, roomCode),
                   users |-> list]>>

\* What one iteration of the loop emits for the room at roomCode.
LeaveEmits(roomCode, s, adapter, c) ==
    LET room == rooms[roomCode]
        after == LeaveRoom(room, s)
        list == [i \in 1..Len(after.users) |->
                    [name |-> after.users[i].name,
                     isHost |-> after.users[i].id = after.host]]
    IN  IF ~HasUser(room, s) \/ after.users = <<>> THEN <<>>
        ELSE (IF room.host = s
              THEN <<[ev |-> "host_transferred",
                      to |-> IoToSocket(c, after.host)]>>
              ELSE <<>>)
             \o <<[ev |-> "room_users", to |-> IoTo(adapter, roomCode),
                   users |-> list]>>

RECURSIVE DisconnectEmits(_, _, _, _)
DisconnectEmits(keys, s, adapter, c) ==
    IF keys = <<>> THEN <<>>
    ELSE LeaveEmits(Head(keys), s, adapter, c)
         \o DisconnectEmits(Tail(keys), s, adapter, c)

\* Mutant: a room that lost its last member stays in the registry.
KeysLeft_KeepEmpty(keys, s) == keys

\* The keys whose room survives the loop.
RECURSIVE KeysLeft(_, _)
KeysLeft(keys, s) ==
    IF keys = <<>> THEN <<>>
    ELSE (IF LeaveRoom(rooms[Head(keys)], s).users = <<>> THEN <<>>
          ELSE <<Head(keys)>>) \o KeysLeft(Tail(keys), s)

disconnect(s) ==
    /\ conn[s] = "open"
    /\ Note("disconnect", s, <<>>)
    /\ conn' = [conn EXCEPT ![s] = "closed"]
    /\ sio' = [c \in DOMAIN sio |-> sio[c] \ {s}]
    /\ roomKeys' = KeysLeft(roomKeys, s)
    /\ rooms' = [c \in {roomKeys'[i] : i \in 1..Len(roomKeys')} |->
                    LeaveRoom(rooms[c], s)]
    /\ out' = DisconnectEmits(roomKeys, s, sio', conn')
    /\ UNCHANGED timers

(***************************************************************************)
(* The commands sockets S may send, with room codes from C, names from N   *)
(* and tracks from T.                                                      *)
(***************************************************************************)
Indices == -1..MaxQueue
RequestIndices == -1..MaxRequests
RelayTimes == {12}
Now == {7}

Lobby(S, C, N) ==
    \/ \E s \in S : connection(s)
    \/ \E s \in S, name \in N, ack \in BOOLEAN, r \in Randoms :
          create_room(s, name, ack, r)
    \/ \E s \in S, code \in C, name \in N, ack \in BOOLEAN :
          join_room(s, code, name, ack)
    \/ \E s \in S : disconnect(s)

Playback(S, C, T) ==
    \/ \E s \in S, roomCode \in C, t \in T : load_track(s, roomCode, t)
    \/ \E s \in S, roomCode \in C, time \in RelayTimes :
          play(s, roomCode, time)
    \/ \E s \in S, roomCode \in C, time \in RelayTimes :
          pause(s, roomCode, time)
    \/ \E s \in S, roomCode \in C, time \in RelayTimes :
          seek(s, roomCode, time)
    \/ \E s \in S, roomCode \in C : track_ended(s, roomCode)

\* A handler that returns at its host guard never reads index or
\* addToQueue, so a socket the guard turns away sends one value of each.
Queue(S, C, T) ==
    \/ \E s \in S, roomCode \in C, t \in T : add_to_queue(s, roomCode, t)
    \/ \E s \in S, roomCode \in C :
          \E i \in IF IsHostOf(s, roomCode) THEN Indices ELSE {0} :
             remove_from_queue(s, roomCode, i)
    \/ \E s \in S, roomCode \in C, t \in T : request_track(s, roomCode, t)
    \/ \E s \in S, roomCode \in C :
          \E i \in IF IsHostOf(s, roomCode) THEN RequestIndices ELSE {0},
             q \in IF IsHostOf(s, roomCode) THEN BOOLEAN ELSE {TRUE} :
             approve_request(s, roomCode, i, q)
    \/ \E s \in S, roomCode \in C :
          \E i \in IF IsHostOf(s, roomCode) THEN RequestIndices ELSE {0} :
             reject_request(s, roomCode, i)

Chat(S, C, X) ==
    \/ \E s \in S, roomCode \in C, text \in X, now \in Now :
          /\ Live(roomCode) => Len(rooms[roomCode].messages) < MaxChat
          /\ send_message(s, roomCode, text, now)
    \/ \E s \in S, roomCode \in C, e \in Emojis \cup {Undefined} :
          send_reaction(s, roomCode, e)

(***************************************************************************)
(* Spec: the registry from an empty server. Any socket connects, creates   *)
(* rooms, joins rooms under any spelling of a code, and disconnects.       *)
(***************************************************************************)
LobbyCodes == {generateRoomCode(<<1, 1, 1, 1>>), <<"a", "a", "a", "b">>,
               UnknownCode}
LobbyNames == {<<>>}

Next ==
    /\ ncmd' = ncmd
    /\ Lobby(Sockets, LobbyCodes, LobbyNames)
    /\ inbox' = inbox
    /\ page' = page
    /\ wire' = wire

Spec == Init /\ [][Next]_vars

(***************************************************************************)
(* SpecRoom: one room, created by s1 and joined by s2, who has sent one    *)
(* chat message; s3 is connected. Every socket sends every playback and    *)
(* queue command with the room's code, and s1 sends each with a code that  *)
(* names no room; any socket may join, under either code, and any may      *)
(* leave.                                                                  *)
(***************************************************************************)
RoomCode == generateRoomCode(<<1, 1, 1, 1>>)
RoomCodeInputs == {RoomCode, UnknownCode}
RoomTracks == {"T1", Undefined}

RoomInit ==
    /\ conn = [s \in Sockets |-> "open"]
    /\ rooms = [c \in {RoomCode} |->
                   [host |-> "s1",
                    users |-> <<[id |-> "s1", name |-> HostDefault],
                                [id |-> "s2", name |-> ListenerDefault]>>,
                    currentTrack |-> Null, queue |-> <<>>,
                    messages |-> <<[name |-> ListenerDefault,
                                    text |-> <<"h", "i">>, time |-> 7]>>,
                    requests |-> <<>>]]
    /\ roomKeys = <<RoomCode>>
    /\ sio = [c \in Codes |-> IF c = RoomCode THEN {"s1", "s2"} ELSE {}]
    /\ timers = <<>>
    /\ cmd = [op |-> "none", s |-> "none", roomCode |-> <<>>]
    /\ out = <<>>
    /\ ncmd = 0
    /\ inbox = [s \in Sockets |-> <<>>]
    /\ page = PageIdle
    /\ wire = <<>>

RoomNext ==
    /\ ncmd' = ncmd
    /\ \/ \E s \in Sockets, code \in RoomCodeInputs, ack \in BOOLEAN :
             join_room(s, code, <<>>, ack)
       \/ \E s \in Sockets : disconnect(s)
       \/ Playback(Sockets, {RoomCode}, RoomTracks)
       \/ Playback({"s1"}, {UnknownCode}, RoomTracks)
       \/ timeout
       \/ Queue(Sockets, {RoomCode}, RoomTracks)
       \/ Queue({"s1"}, {UnknownCode}, RoomTracks)
    /\ inbox' = inbox
    /\ page' = page
    /\ wire' = wire

SpecRoom == RoomInit /\ [][RoomNext]_vars

(***************************************************************************)
(* SpecTrace: the room of scenario D (host s1, guests s2 and s3, queue     *)
(* [T1, T2]) with every delivery logged. Each command gets the next        *)
(* number; a delivery carries the number and the sender of the command     *)
(* whose handler emitted it, or that set the timer which emitted it.       *)
(***************************************************************************)
Tagged(emits, from, n, late) ==
    [i \in 1..Len(emits) |->
        [from |-> from, n |-> n, late |-> late, m |-> emits[i]]]

\* socket.io delivers to each socket in the order the server emitted
Deliver(box, emits, from, n, late) ==
    [s \in Sockets |->
        box[s] \o Tagged(SelectSeq(emits, LAMBDA e : s \in e.to), from, n, late)]

TraceSenders == {"s1", "s2"}

TraceInit ==
    /\ conn = [s \in Sockets |-> "open"]
    /\ rooms = [c \in {RoomCode} |->
                   [host |-> "s1",
                    users |-> <<[id |-> "s1", name |-> HostDefault],
                                [id |-> "s2", name |-> ListenerDefault],
                                [id |-> "s3", name |-> ListenerDefault]>>,
                    currentTrack |-> Null, queue |-> <<"T1", "T2">>,
                    messages |-> <<>>, requests |-> <<>>]]
    /\ roomKeys = <<RoomCode>>
    /\ sio = [c \in Codes |-> IF c = RoomCode THEN Sockets ELSE {}]
    /\ timers = <<>>
    /\ cmd = [op |-> "none", s |-> "none", roomCode |-> <<>>]
    /\ out = <<>>
    /\ ncmd = 0
    /\ inbox = [s \in Sockets |-> <<>>]
    /\ page = PageIdle
    /\ wire = <<>>

TraceCommand ==
    /\ ncmd < MaxCmds
    /\ ncmd' = ncmd + 1
    /\ \/ Playback(TraceSenders, {RoomCode}, Tracks)
       \/ \E s \in Sockets : disconnect(s)
    /\ inbox' = Deliver(inbox, out', cmd'.s, ncmd', FALSE)
    /\ page' = page
    /\ wire' = wire

TraceTimeout ==
    /\ ncmd' = ncmd
    /\ timeout
    /\ inbox' = Deliver(inbox, out', Head(timers).s, Head(timers).n, TRUE)
    /\ page' = page
    /\ wire' = wire

TraceNext == TraceCommand \/ TraceTimeout

SpecTrace == TraceInit /\ [][TraceNext]_vars

(***************************************************************************)
(* Claims about the registry (Spec).                                       *)
(***************************************************************************)
\* The presence list of a room: one entry per member, in Map order.
Presence(room) ==
    [j \in 1..Len(room.users) |->
        [name |-> room.users[j].name,
         isHost |-> room.users[j].id = room.host]]

Emitted(ev) == {i \in 1..Len(out) : out[i].ev = ev}

\* C1: every room in the registry has at least one member, and its host is
\* one of its members.
C1_HostIsMember ==
    \A c \in DOMAIN rooms :
        /\ rooms[c].users # <<>>
        /\ HasUser(rooms[c], rooms[c].host)

\* A host has left a room that lives on under a new host, while another
\* room was emptied or never made.
C1_Witness ==
    /\ cmd.op = "disconnect"
    /\ Emitted("host_transferred") # {}
    /\ \E c \in DOMAIN rooms :
          /\ cmd.s \notin UserIds(rooms[c])
          /\ Len(rooms[c].users) >= 1

\* C6: join_room with a code that names no live room answers the caller
\* with a failure and a reason, and does nothing else: no room and no
\* adapter room changes, and nothing is broadcast.
C6_JoinMiss ==
    [][(/\ cmd'.op = "join_room"
        /\ cmd'.ack
        /\ ~Live(ToUpperCase(cmd'.roomCode)))
       => /\ Len(out') = 1
          /\ out'[1].ev = "ack"
          /\ out'[1].to = {cmd'.s}
          /\ out'[1].success = FALSE
          /\ out'[1].message # ""
          /\ UNCHANGED engine]_vars

\* A join was refused while a room was live under another code.
C6_Witness ==
    /\ cmd.op = "join_room"
    /\ cmd.ack
    /\ ~Live(ToUpperCase(cmd.roomCode))
    /\ DOMAIN rooms # {}
    /\ Len(out) = 1
    /\ out[1].success = FALSE

\* The rooms whose host is s and that keep a member when s leaves.
Transferred(s) ==
    {c \in DOMAIN rooms : rooms[c].host = s /\ UserIds(rooms[c]) # {s}}

\* C7: when a host disconnects and members remain, one of them is the new
\* host, host_transferred goes to the new host and to nobody else, and all
\* remaining members get the presence list of exactly the remaining members
\* with exactly the new host flagged.
C7_HostTransfer ==
    [][cmd'.op = "disconnect"
       => LET s == cmd'.s
              T == Transferred(s)
              HT == {i \in 1..Len(out') : out'[i].ev = "host_transferred"}
          IN  /\ \A c \in T :
                    /\ c \in DOMAIN rooms'
                    /\ UserIds(rooms'[c]) = UserIds(rooms[c]) \ {s}
                    /\ rooms'[c].host \in UserIds(rooms'[c])
                    /\ \E i \in HT : out'[i].to = {rooms'[c].host}
                    /\ \E i \in 1..Len(out') :
                          /\ out'[i].ev = "room_users"
                          /\ out'[i].to = UserIds(rooms'[c])
                          /\ out'[i].users = Presence(rooms'[c])
                    /\ Cardinality({j \in 1..Len(rooms'[c].users) :
                                       Presence(rooms'[c])[j].isHost}) = 1
              /\ Cardinality(HT) = Cardinality(T)
              /\ \A i \in HT : \E c \in T : out'[i].to = {rooms'[c].host}]_vars

\* Scenario C: a host left and two members remain, one of them told it is
\* the host now.
C7_Witness ==
    /\ cmd.op = "disconnect"
    /\ \E c \in DOMAIN rooms :
          /\ Len(rooms[c].users) = 2
          /\ \E i \in Emitted("host_transferred") :
                out[i].to = {rooms[c].host}
          /\ \E i \in Emitted("room_users") :
                out[i].to = UserIds(rooms[c]) /\ Len(out[i].users) = 2

(***************************************************************************)
(* Claims about one room (SpecRoom).                                       *)
(***************************************************************************)
HostOnly == {"load_track", "play", "pause", "seek", "add_to_queue",
             "remove_from_queue", "track_ended", "approve_request",
             "reject_request"}

\* C2: a host-only command from a socket that is not the host of the room
\* it names, or that names no live room, changes nothing and emits nothing.
C2_HostOnly ==
    [][(cmd'.op \in HostOnly /\ ~IsHostOf(cmd'.s, cmd'.roomCode))
       => (out' = <<>> /\ UNCHANGED engine)]_vars

\* A guest of a room with a queued track asked to remove from the queue.
C2_Witness ==
    /\ cmd.op = "remove_from_queue"
    /\ Live(cmd.roomCode)
    /\ HasUser(rooms[cmd.roomCode], cmd.s)
    /\ rooms[cmd.roomCode].host # cmd.s
    /\ rooms[cmd.roomCode].queue # <<>>
    /\ out = <<>>

\* C3: load_track, play, pause and seek from the host go, with their
\* payload, to every other member of the room and not to the host.
C3_RelayToOthers ==
    [][(/\ cmd'.op \in {"load_track", "play", "pause", "seek"}
        /\ IsHostOf(cmd'.s, cmd'.roomCode))
       => /\ Len(out') = 1
          /\ out'[1].ev = cmd'.op
          /\ out'[1].to = UserIds(rooms[cmd'.roomCode]) \ {cmd'.s}
          /\ IF cmd'.op = "load_track" THEN out'[1].track = cmd'.arg
             ELSE out'[1].time = cmd'.arg]_vars

\* Host s1 sent play and both guests got it.
C3_Witness ==
    /\ cmd.op = "play"
    /\ IsHostOf("s1", cmd.roomCode)
    /\ cmd.s = "s1"
    /\ Len(out) = 1
    /\ out[1].to = {"s2", "s3"}

\* C5: a join_room that finds its room answers isHost = false with the
\* room's current track, queue, chat history and requests as they are at
\* that moment, and the caller is a member afterwards.
C5_JoinSnapshot ==
    [][(/\ cmd'.op = "join_room"
        /\ cmd'.ack
        /\ Live(ToUpperCase(cmd'.roomCode)))
       => LET c == ToUpperCase(cmd'.roomCode)
          IN  /\ out' # <<>>
              /\ out'[1].ev = "ack"
              /\ out'[1].to = {cmd'.s}
              /\ out'[1].success
              /\ out'[1].roomCode = c
              /\ out'[1].isHost = FALSE
              /\ out'[1].currentTrack = rooms[c].currentTrack
              /\ out'[1].queue = rooms[c].queue
              /\ out'[1].messages = rooms[c].messages
              /\ out'[1].requests = rooms[c].requests
              /\ c \in DOMAIN rooms'
              /\ HasUser(rooms'[c], cmd'.s)]_vars

\* s3 joined late and got a loaded track, a queue, a request and a message.
C5_Witness ==
    /\ cmd.op = "join_room"
    /\ cmd.s = "s3"
    /\ out # <<>>
    /\ out[1].success
    /\ out[1].currentTrack = "T1"
    /\ out[1].queue # <<>>
    /\ out[1].requests # <<>>
    /\ out[1].messages # <<>>
    /\ HasUser(rooms[out[1].roomCode], "s3")

\* C9: track_ended from the host with an empty queue sets the current track
\* to null and does nothing else: queue, requests, chat, members and host
\* stay, no timer is set and nothing is emitted.
C9_EndOfQueue ==
    [][(/\ cmd'.op = "track_ended"
        /\ IsHostOf(cmd'.s, cmd'.roomCode)
        /\ rooms[cmd'.roomCode].queue = <<>>)
       => /\ rooms' = [rooms EXCEPT ![cmd'.roomCode].currentTrack = Null]
          /\ out' = <<>>
          /\ UNCHANGED <<conn, roomKeys, sio, timers>>]_vars

\* The host ended the last track of a room that has a request and a message.
C9_Witness ==
    /\ cmd.op = "track_ended"
    /\ IsHostOf(cmd.s, cmd.roomCode)
    /\ cmd.arg = Null
    /\ rooms[cmd.roomCode].currentTrack = Null
    /\ rooms[cmd.roomCode].queue = <<>>
    /\ rooms[cmd.roomCode].requests # <<>>
    /\ rooms[cmd.roomCode].messages # <<>>
    /\ Len(rooms[cmd.roomCode].users) >= 2
    /\ out = <<>>

\* C10 as stated: remove_from_queue from the host with an index at or past
\* the end leaves the queue as it is and emits nothing.
C10_NoBroadcast ==
    [][(/\ cmd'.op = "remove_from_queue"
        /\ IsHostOf(cmd'.s, cmd'.roomCode)
        /\ cmd'.arg >= Len(rooms[cmd'.roomCode].queue))
       => /\ rooms'[cmd'.roomCode].queue = rooms[cmd'.roomCode].queue
          /\ out' = <<>>]_vars

\* C10 as the handler has it: the queue (and the whole registry) stays as
\* it is, and the unchanged queue is sent as queue_update to every member.
C10_QueueKept ==
    [][(/\ cmd'.op = "remove_from_queue"
        /\ IsHostOf(cmd'.s, cmd'.roomCode)
        /\ cmd'.arg >= Len(rooms[cmd'.roomCode].queue))
       => /\ UNCHANGED engine
          /\ out' = <<[ev |-> "queue_update",
                       to |-> UserIds(rooms[cmd'.roomCode]),
                       queue |-> rooms[cmd'.roomCode].queue]>>]_vars

\* The host asked to remove at an index no queue of the model reaches,
\* from a queue that has an entry.
C10_Witness ==
    /\ cmd.op = "remove_from_queue"
    /\ IsHostOf(cmd.s, cmd.roomCode)
    /\ cmd.arg >= MaxQueue
    /\ rooms[cmd.roomCode].queue # <<>>
    /\ Len(out) = 1
    /\ out[1].queue = rooms[cmd.roomCode].queue

(***************************************************************************)
(* Claims about the order of deliveries (SpecTrace).                       *)
(***************************************************************************)
\* Positions i < j of one inbox that hold deliveries of two commands of one
\* sender, the later command's delivery first.
Overtaken(s, i, j) ==
    /\ i < j
    /\ inbox[s][i].from = inbox[s][j].from
    /\ inbox[s][i].n > inbox[s][j].n

\* C4 as stated: whatever two commands of one sender a socket gets
\* deliveries of, it gets those of the earlier command first.
C4_InOrder ==
    \A s \in Sockets : \A i, j \in 1..Len(inbox[s]) : ~Overtaken(s, i, j)

\* C4 as the handlers have it: what a handler emits arrives in the order
\* of the commands; the one delivery that arrives after those of a later
\* command is the play(0) that a track_ended left to a timer.
C4_InOrderButDeferredPlay ==
    \A s \in Sockets : \A i, j \in 1..Len(inbox[s]) :
        Overtaken(s, i, j)
        => /\ inbox[s][j].late
           /\ inbox[s][j].m.ev = "play"
           /\ inbox[s][j].m.time = 0

\* Scenario B: a guest got the host's load_track and then the host's play.
C4_Witness ==
    \E s \in Sockets : \E i, j \in 1..Len(inbox[s]) :
        /\ i < j
        /\ inbox[s][i].from = "s1" /\ inbox[s][j].from = "s1"
        /\ s # "s1"
        /\ inbox[s][i].m.ev = "load_track" /\ ~inbox[s][i].late
        /\ inbox[s][j].m.ev = "play" /\ ~inbox[s][j].late
        /\ inbox[s][i].n < inbox[s][j].n

\* The deliveries a socket got from command n: event names, in order.
Got(box, ev, n) ==
    {i \in 1..Len(box) : box[i].m.ev = ev /\ box[i].n = n}

\* C8: track_ended from the host with a queue makes the front entry the
\* current track and leaves the rest in order; every member, the host too,
\* gets load_track for that entry in the same step, and play(0) is left to
\* a timer. When the timer runs, play(0) goes to the members of the room,
\* and each socket still connected that got the load_track gets the play(0)
\* after it.
C8_AutoAdvance ==
    [][/\ (/\ cmd'.op = "track_ended"
           /\ IsHostOf(cmd'.s, cmd'.roomCode)
           /\ rooms[cmd'.roomCode].queue # <<>>)
          => LET c == cmd'.roomCode
                 q == rooms[c].queue
                 members == UserIds(rooms[c])
             IN  /\ rooms' = [rooms EXCEPT ![c].currentTrack = Head(q),
                                           ![c].queue = Tail(q)]
                 /\ Len(out') >= 1
                 /\ out'[1] = [ev |-> "load_track", to |-> members,
                               track |-> Head(q)]
                 /\ cmd'.s \in members
                 /\ \A s \in members :
                       \E i \in Got(inbox'[s], "load_track", ncmd') :
                          /\ i > Len(inbox[s])
                          /\ inbox'[s][i].m.track = Head(q)
                 /\ \A i \in 1..Len(out') : out'[i].ev # "play"
                 /\ timers' = Append(timers, PlayLater(cmd'.s, c, ncmd'))
       /\ cmd'.op = "timeout"
          => LET t == Head(timers)
             IN  /\ out' = <<[ev |-> "play",
                              to |-> IF Live(t.roomCode)
                                     THEN UserIds(rooms[t.roomCode]) ELSE {},
                              time |-> 0]>>
                 /\ \A s \in Sockets :
                       (conn[s] = "open"
                         /\ Got(inbox[s], "load_track", t.n) # {})
                       => /\ Len(inbox'[s]) = Len(inbox[s]) + 1
                          /\ inbox'[s][Len(inbox'[s])].m.ev = "play"
                          /\ inbox'[s][Len(inbox'[s])].m.time = 0
                          /\ inbox'[s][Len(inbox'[s])].n = t.n]_vars

\* Scenario D: the queue was [T1, T2]; T1 is current, T2 is queued, and
\* host and guests each got load_track(T1) and later the timer's play(0).
C8_Witness ==
    /\ cmd.op = "timeout"
    /\ Live(RoomCode)
    /\ rooms[RoomCode].host = "s1"
    /\ rooms[RoomCode].currentTrack = "T1"
    /\ rooms[RoomCode].queue = <<"T2">>
    /\ \A s \in Sockets :
          \E i, j \in 1..Len(inbox[s]) :
             /\ i < j
             /\ inbox[s][i].m.ev = "load_track"
             /\ inbox[s][i].m.track = "T1"
             /\ inbox[s][j].m.ev = "play"
             /\ inbox[s][j].late
             /\ inbox[s][j].n = inbox[s][i].n

(***************************************************************************)
(* SpecQueue: the room of scenario E: host s1, guest s2, s3 connected but  *)
(* in no room, one chat message stored. Every socket sends every queue and *)
(* request command with every track, a missing track included, and the     *)
(* host sends them with every index.                                       *)
(***************************************************************************)
QueueTracks == Tracks \cup {Undefined}

QueueInit == RoomInit

QueueNext ==
    /\ ncmd' = ncmd
    /\ Queue(Sockets, {RoomCode}, QueueTracks)
    /\ inbox' = inbox
    /\ page' = page
    /\ wire' = wire

SpecQueue == QueueInit /\ [][QueueNext]_vars

(***************************************************************************)
(* Claims about the queue and the request list (SpecQueue).                *)
(***************************************************************************)
\* The room every command of SpecQueue names, before and after the step.
Before == rooms[RoomCode]
After == rooms'[RoomCode]

\* index names an entry of a list of length len.
Valid(index, len) == 0 <= index /\ index < len

\* C11 as stated: remove_from_queue from the host removes the entry at
\* index, the others keeping their order, when 0 <= index < length, and
\* leaves the queue as it is for any other index, negative ones included.
C11_RemoveValidOnly ==
    [][\A s \in Sockets, i \in Indices :
          (remove_from_queue(s, RoomCode, i) /\ IsHostOf(s, RoomCode))
          => After.queue = IF Valid(i, Len(Before.queue))
                           THEN RemoveAt(Before.queue, i + 1)
                           ELSE Before.queue]_vars

\* C12: request_track(T) from a member who is not the host appends
\* {T, requestedBy: the member's display name} at the tail of the request
\* list and touches neither queue nor current track; approve_request(i,
\* addToQueue = true) from the host for a listed entry takes exactly that
\* entry off the request list, appends its track at the tail of the queue
\* and leaves the current track as it was.
C12_RequestThenApprove ==
    [][/\ \A s \in Sockets, t \in Tracks :
             (/\ request_track(s, RoomCode, t)
              /\ HasUser(Before, s) /\ Before.host # s)
             => /\ After.requests =
                       Append(Before.requests,
                              [track |-> t, requestedBy |-> GetUser(Before, s)])
                /\ After.queue = Before.queue
                /\ After.currentTrack = Before.currentTrack
       /\ \A s \in Sockets, i \in RequestIndices :
             (/\ approve_request(s, RoomCode, i, TRUE)
              /\ IsHostOf(s, RoomCode)
              /\ Valid(i, Len(Before.requests)))
             => /\ After.requests = RemoveAt(Before.requests, i + 1)
                /\ After.queue =
                       Append(Before.queue, Before.requests[i + 1].track)
                /\ After.currentTrack = Before.currentTrack]_vars

\* Scenario E: the guest requested T1 and T2, the host approved T2 into
\* the queue; T1 is still pending under the guest's name and nothing is
\* loaded.
C12_Witness ==
    /\ cmd.op = "approve_request"
    /\ cmd.s = "s1"
    /\ Len(out) = 2
    /\ out[1].ev = "queue_update"
    /\ rooms[RoomCode].queue = <<"T2">>
    /\ rooms[RoomCode].requests =
          <<[track |-> "T1", requestedBy |-> ListenerDefault]>>
    /\ rooms[RoomCode].currentTrack = Null

\* C13: approve_request(index, addToQueue = false) from the host for a
\* listed entry takes that entry off the request list, makes its track the
\* current track, empties the queue, and sends load_track with the track,
\* queue_update with the empty queue and requests_update with the list
\* that is left, each to all members.
C13_ApprovePlayNow ==
    [][\A s \in Sockets, i \in RequestIndices :
          (/\ approve_request(s, RoomCode, i, FALSE)
           /\ IsHostOf(s, RoomCode)
           /\ Valid(i, Len(Before.requests)))
          => LET track == Before.requests[i + 1].track
                 left == RemoveAt(Before.requests, i + 1)
                 members == UserIds(Before)
             IN  /\ After.requests = left
                 /\ After.currentTrack = track
                 /\ After.queue = <<>>
                 /\ out' = <<[ev |-> "load_track", to |-> members,
                              track |-> track],
                             [ev |-> "queue_update", to |-> members,
                              queue |-> <<>>],
                             [ev |-> "requests_update", to |-> members,
                              requests |-> left]>>]_vars

\* The host played the pending T2 at once while T1 was pending too: T2 is
\* loaded, the queue is empty, T1 is still pending.
C13_Witness ==
    /\ cmd.op = "approve_request"
    /\ cmd.s = "s1"
    /\ Len(out) = 3
    /\ out[1] = [ev |-> "load_track", to |-> {"s1", "s2"}, track |-> "T2"]
    /\ rooms[RoomCode].currentTrack = "T2"
    /\ rooms[RoomCode].queue = <<>>
    /\ rooms[RoomCode].requests =
          <<[track |-> "T1", requestedBy |-> ListenerDefault]>>

\* C14 as stated: approve_request and reject_request from the host with
\* an index that names no entry, negative ones included, leave the request
\* list, the queue and the current track as they were.
C14_StaleIndexNoop ==
    [][\A s \in Sockets, i \in RequestIndices :
          (/\ \/ reject_request(s, RoomCode, i)
              \/ \E q \in BOOLEAN : approve_request(s, RoomCode, i, q)
           /\ IsHostOf(s, RoomCode)
           /\ ~Valid(i, Len(Before.requests)))
          => /\ After.requests = Before.requests
             /\ After.queue = Before.queue
             /\ After.currentTrack = Before.currentTrack]_vars

\* C15: reject_request(index) from the host for a listed entry takes
\* exactly that entry off the request list; current track, queue, chat
\* history, members and host stay as they were, as do the adapter rooms
\* and the timers.
C15_RejectOnly ==
    [][\A s \in Sockets, i \in RequestIndices :
          (/\ reject_request(s, RoomCode, i)
           /\ IsHostOf(s, RoomCode)
           /\ Valid(i, Len(Before.requests)))
          => /\ rooms' = [rooms EXCEPT ![RoomCode].requests =
                             RemoveAt(Before.requests, i + 1)]
             /\ UNCHANGED <<conn, roomKeys, sio, timers>>]_vars

\* The host rejected the first of two pending requests while T1 was
\* loaded and T2 queued; the second request is what is left.
C15_Witness ==
    /\ cmd.op = "reject_request"
    /\ cmd.s = "s1"
    /\ cmd.arg = 0
    /\ rooms[RoomCode].requests =
          <<[track |-> "T2", requestedBy |-> ListenerDefault]>>
    /\ out = <<[ev |-> "requests_update", to |-> {"s1", "s2"},
                requests |-> rooms[RoomCode].requests]>>
    /\ rooms[RoomCode].currentTrack = "T1"
    /\ rooms[RoomCode].queue = <<"T2">>
    /\ rooms[RoomCode].messages # <<>>

C17_GoneAfterLastLeave ==
    [][/\ \A c \in DOMAIN rooms :
             (cmd'.op = "disconnect" /\ UserIds(rooms[c]) = {cmd'.s})
             => c \notin DOMAIN rooms'
       /\ ~Live(RoomCode) => RoomCode \notin DOMAIN rooms'
       /\ (/\ cmd'.op = "join_room"
           /\ cmd'.ack
           /\ ToUpperCase(cmd'.roomCode) = RoomCode
           /\ ~Live(RoomCode))
          => /\ out' = <<[ev |-> "ack", to |-> {cmd'.s}, success |-> FALSE,
                          message |-> "Room not found or expired."]>>
             /\ rooms' = rooms]_vars

\* Scenario F: s1 and s2 have left the room, and s3's join with its code
\* was refused.
C17_Witness ==
    /\ cmd.op = "join_room"
    /\ cmd.s = "s3"
    /\ cmd.roomCode = RoomCode
    /\ conn["s1"] = "closed" /\ conn["s2"] = "closed"
    /\ ~Live(RoomCode)
    /\ Len(out) = 1
    /\ out[1].success = FALSE

\* A string of exactly four letters of generateRoomCode's alphabet.
IsRoomCode(c) ==
    /\ Len(c) = 4
    /\ \A i \in 1..Len(c) : \E k \in 1..Len(chars) : c[i] = chars[k]

\* C18: the code create_room returns is four uppercase letters and is the
\* code of no room live before the step; the step adds one room under that
\* code and leaves every room that was live in place and as it was. Codes
\* in the registry are always of that shape.
C18_FreshCode ==
    [][(cmd'.op = "create_room" /\ cmd'.ack)
       => /\ Len(out') >= 1
          /\ out'[1].ev = "ack" /\ out'[1].success
          /\ IsRoomCode(out'[1].roomCode)
          /\ out'[1].roomCode \notin DOMAIN rooms
          /\ DOMAIN rooms' = DOMAIN rooms \cup {out'[1].roomCode}
          /\ \A c \in DOMAIN rooms : rooms'[c] = rooms[c]
          /\ \A c \in DOMAIN rooms' : IsRoomCode(c)]_vars

\* A room was created while another was live, under a code of its own.
C18_Witness ==
    /\ cmd.op = "create_room"
    /\ cmd.ack
    /\ Len(out) = 2
    /\ out[1].roomCode \in DOMAIN rooms
    /\ \E c \in DOMAIN rooms :
          /\ c # out[1].roomCode
          /\ rooms[c].host # cmd.s
          /\ Len(rooms[c].users) = 2

\* The rooms that list socket s among their users.
RoomsOf(s) == {c \in DOMAIN rooms : HasUser(rooms[c], s)}

\* C19 as stated: no socket is a member of two rooms at once, whatever it
\* created or joined before.
C19_AtMostOneRoom == \A s \in Sockets : Cardinality(RoomsOf(s)) <= 1

(***************************************************************************)
(* SpecChat: the room of SpecRoom with its one stored message. The guest   *)
(* s2 keeps sending messages, each stamped one tick after the last stored  *)
(* one, until MaxChat messages have been sent past the cap; s2 also sends  *)
(* empty texts and s3, who is in no room, sends too.                       *)
(***************************************************************************)
ChatSenders == {"s2", "s3"}
ChatTexts == {<<>>, <<"h", "i">>}

\* Date.now() at the next message: later than every stored time.
ChatClock ==
    LET messages == rooms[RoomCode].messages
    IN  IF messages = <<>> THEN 0 ELSE messages[Len(messages)].time + 1

\* The stamp of the message stored at the start, and the number of
\* messages the cap has pushed out since.
ChatStart == CHOOSE t \in Now : TRUE
ChatDropped == rooms[RoomCode].messages[1].time - ChatStart

ChatInit == RoomInit

ChatNext ==
    /\ ncmd' = ncmd
    /\ ChatDropped < MaxChat
    /\ \E s \in ChatSenders, text \in ChatTexts :
          send_message(s, RoomCode, text, ChatClock)
    /\ inbox' = inbox
    /\ page' = page
    /\ wire' = wire

SpecChat == ChatInit /\ [][ChatNext]_vars

\* C20: no room ever stores more than 100 messages. A message accepted
\* below the cap is appended; a message accepted while 100 are stored
\* pushes out the oldest one, and the other 99 keep their order with the
\* new message after them.
C20_ChatCap ==
    [][/\ \A c \in DOMAIN rooms' : Len(rooms'[c].messages) <= 100
       /\ \A s \in ChatSenders, text \in ChatTexts :
             (/\ send_message(s, RoomCode, text, ChatClock)
              /\ HasUser(Before, s) /\ text # <<>>)
             => LET msg == [name |-> GetUser(Before, s), text |-> text,
                            time |-> ChatClock]
                IN  After.messages =
                       IF Len(Before.messages) = 100
                       THEN Append(Tail(Before.messages), msg)
                       ELSE Append(Before.messages, msg)]_vars

\* 100 messages are stored after one was pushed out: the oldest stored is
\* the second ever sent, the newest is the one just broadcast.
C20_Witness ==
    /\ cmd.op = "send_message"
    /\ Len(rooms[RoomCode].messages) = 100
    /\ rooms[RoomCode].messages[1].time = ChatStart + 1
    /\ \A i \in 1..99 :
          rooms[RoomCode].messages[i + 1].time =
             rooms[RoomCode].messages[i].time + 1
    /\ Len(out) = 1
    /\ out[1].msg = rooms[RoomCode].messages[100]

(***************************************************************************)
(* SpecTalk: the room of SpecRoom (host s1, guest s2 with one stored       *)
(* message, s3 outside). Every socket sends messages (no text, a short     *)
(* one, one over the limit) and reactions (with and without an emoji) to   *)
(* the room and to a code that names none; s3 may join, anyone may leave.  *)
(***************************************************************************)
TalkInit == RoomInit

TalkNext ==
    /\ ncmd' = ncmd
    /\ \/ Chat(Sockets, RoomCodeInputs, TextInputs)
       \/ \E s \in Sockets : join_room(s, RoomCode, <<>>, TRUE)
       \/ \E s \in Sockets : disconnect(s)
    /\ inbox' = inbox
    /\ page' = page
    /\ wire' = wire

SpecTalk == TalkInit /\ [][TalkNext]_vars

\* The sockets that are members of the room named roomCode (none if no
\* room has that code).
Members(roomCode) ==
    IF Live(roomCode) THEN UserIds(rooms[roomCode]) ELSE {}

BadNames == {<<>>, NotString, NullPayload}
BadCodes == {RoomCode, UnknownCode, NotString}
BadTexts == {<<>>, <<"h", "i">>, NullPayload}

\* The call carries something that is not of the expected shape.
MalformedCreate(s) ==
    \E name \in {NotString, NullPayload}, ack \in BOOLEAN, r \in Randoms :
       create_room(s, name, ack, r)
MalformedJoin(s) ==
    \E code \in BadCodes, name \in BadNames, ack \in BOOLEAN :
       /\ code = NotString \/ name \in {NotString, NullPayload}
       /\ join_room(s, code, name, ack)
MalformedMessage(s) ==
    \E c \in RoomCodeInputs, now \in Now :
       send_message(s, c, NullPayload, now)

MalformedInit == RoomInit

MalformedNext ==
    /\ ncmd' = ncmd
    /\ \/ \E s \in Sockets, name \in BadNames, ack \in BOOLEAN,
             r \in Randoms : create_room(s, name, ack, r)
       \/ \E s \in Sockets, code \in BadCodes, name \in BadNames,
             ack \in BOOLEAN : join_room(s, code, name, ack)
       \/ \E s \in Sockets, c \in RoomCodeInputs, text \in BadTexts,
             now \in Now :
             /\ Live(c) => Len(rooms[c].messages) < MaxChat
             /\ send_message(s, c, text, now)
       \/ \E s \in Sockets : disconnect(s)
    /\ inbox' = inbox
    /\ page' = page
    /\ wire' = wire

SpecMalformed == MalformedInit /\ [][MalformedNext]_vars

\* C23 as stated: a malformed command changes no state, emits nothing and
\* raises no error out of its handler.
C23_MalformedDropped ==
    [][\A s \in Sockets :
          (MalformedCreate(s) \/ MalformedJoin(s) \/ MalformedMessage(s))
          => (out' = <<>> /\ UNCHANGED engine)]_vars

(***************************************************************************)
(* Claims about create_room and display names.                             *)
(***************************************************************************)
\* The do-while of create_room has an exit: some code generateRoomCode can
\* draw names no live room.
LoopExits == \E r \in Randoms : ~Live(generateRoomCode(r))

\* C24 as stated: in every reachable state of the registry a create_room
\* call from a connected socket terminates (and then acks success).
C24_CreateTerminates ==
    \A s \in Sockets : conn[s] = "open" => LoopExits

(***************************************************************************)
(* The host's page (vibesync-frontend/app/page.tsx).  The play/pause       *)
(* button calls handlePlay or handlePause; the YouTube player reports each *)
(* change of its state to onStateChange some time later; the flag          *)
(* isSyncingRef is cleared by a timer 500 ms after it was set.  The three  *)
(* are separate tasks of the browser's event loop, so the model lets the   *)
(* timer and the player's event happen in either order.                    *)
(***************************************************************************)
MaxClicks == 3

YT_ENDED == 0
YT_PLAYING == 1
YT_PAUSED == 2

\* playerRef.current.playVideo() / pauseVideo(): the player changes state
\* and reports the change later; a player already in that state reports
\* nothing.
PlayerDoes(to, data, cause) ==
    IF page.player = to THEN page.events
    ELSE Append(page.events, [data |-> data, cause |-> cause])

Emit(ev, by, cause) == <<[ev |-> ev, by |-> by, cause |-> cause]>>

handlePlay ==
    /\ page.clicks < MaxClicks
    /\ page' = [page EXCEPT !.isSyncingRef = TRUE,
                            !.isPlaying = TRUE,
                            !.player = "playing",
                            !.events = PlayerDoes("playing", YT_PLAYING, "handlePlay"),
                            !.emitted = Emit("play", "handlePlay", "host"),
                            !.timeouts = @ + 1,
                            !.clicks = @ + 1]

handlePause ==
    /\ page.clicks < MaxClicks
    /\ page' = [page EXCEPT !.isSyncingRef = TRUE,
                            !.isPlaying = FALSE,
                            !.player = "paused",
                            !.events = PlayerDoes("paused", YT_PAUSED, "handlePause"),
                            !.emitted = Emit("pause", "handlePause", "host"),
                            !.timeouts = @ + 1,
                            !.clicks = @ + 1]

\* setTimeout(() => { isSyncingRef.current = false; }, 500)
syncTimeout ==
    /\ page.timeouts > 0
    /\ page' = [page EXCEPT !.isSyncingRef = FALSE,
                            !.timeouts = @ - 1,
                            !.emitted = <<>>]

\* The host plays, pauses or lets the video end inside the player itself;
\* a video ends while it plays.
playerChange(to, data) ==
    /\ page.clicks < MaxClicks
    /\ page.player # to
    /\ to = "ended" => page.player = "playing"
    /\ page' = [page EXCEPT !.player = to,
                            !.events = Append(@, [data |-> data, cause |-> "player"]),
                            !.emitted = <<>>,
                            !.clicks = @ + 1]

\* onStateChange(e) on the host's page (isHost is true), for the oldest
\* state change not yet reported; hidden is document.hidden.
onStateChange(hidden) ==
    /\ page.events # <<>>
    /\ LET e == Head(page.events)
           rest == [page EXCEPT !.events = Tail(@), !.emitted = <<>>]
       IN  page' =
             IF page.isSyncingRef THEN rest
             ELSE IF e.data = YT_PLAYING
                  THEN [rest EXCEPT !.isPlaying = TRUE,
                                    !.emitted = Emit("play", "onStateChange", e.cause)]
             ELSE IF e.data = YT_PAUSED
                  THEN IF hidden THEN rest
                       ELSE [rest EXCEPT !.isPlaying = FALSE,
                                         !.emitted = Emit("pause", "onStateChange", e.cause)]
             ELSE [rest EXCEPT !.emitted = Emit("track_ended", "onStateChange", e.cause)]

PageNext ==
    /\ \/ handlePlay
       \/ handlePause
       \/ syncTimeout
       \/ playerChange("playing", YT_PLAYING)
       \/ playerChange("paused", YT_PAUSED)
       \/ playerChange("ended", YT_ENDED)
       \/ \E hidden \in BOOLEAN : onStateChange(hidden)
    /\ UNCHANGED server

SpecPage == RoomInit /\ [][PageNext]_vars

\* C25: the host's page never emits a play or a pause from onStateChange
\* for a state change of the player that handlePlay or handlePause caused:
\* the command was already emitted by the handler, so only a change made in
\* the player itself may be announced by onStateChange.
C25_NoDuplicate ==
    \A i \in 1..Len(page.emitted) :
        (page.emitted[i].by = "onStateChange" /\ page.emitted[i].ev \in {"play", "pause"})
            => page.emitted[i].cause = "player"

(***************************************************************************)
(* Names.  create_room and join_room with the names a client can supply:   *)
(* none, one with spaces around it, one longer than the limit and one made *)
(* of spaces only.                                                         *)
(***************************************************************************)
Blank == <<" ", " ">>
SuppliedNames == NameInputs \cup {Blank}
Namers == {"s2", "s3"}

NamesNext ==
    /\ ncmd' = ncmd
    /\ Lobby(Namers, {RoomCode}, SuppliedNames)
    /\ inbox' = inbox
    /\ page' = page
    /\ wire' = wire

SpecNames == RoomInit /\ [][NamesNext]_vars

\* C26: in every state every member of every room has a display name of at
\* least one and at most NameLimit (20) characters.
C26_DisplayName ==
    \A c \in DOMAIN rooms : \A i \in 1..Len(rooms[c].users) :
        /\ Len(rooms[c].users[i].name) >= 1
        /\ Len(rooms[c].users[i].name) <= NameLimit

(***************************************************************************)
(* Presence.  Each socket keeps the last room_users list it was sent, as   *)
(* the page does with setRoomUsers (the payload names no room).            *)
(***************************************************************************)
LastUsers(box, emits) ==
    [s \in Sockets |->
        LET mine == SelectSeq(emits, LAMBDA e : e.ev = "room_users" /\ s \in e.to)
        IN  IF mine = <<>> THEN box[s] ELSE <<mine[Len(mine)]>>]

PresenceNext ==
    /\ ncmd' = ncmd
    /\ Lobby(Sockets, Codes, LobbyNames)
    /\ inbox' = LastUsers(inbox, out')
    /\ page' = page
    /\ wire' = wire

SpecPresence == Init /\ [][PresenceNext]_vars

\* C27: in every state, the last room_users list each member of a room was
\* sent is the room's current presence list: its current members in order,
\* with the current host and nobody else flagged isHost.
C27_LastPresence ==
    \A c \in DOMAIN rooms : \A s \in Sockets :
        HasUser(rooms[c], s) =>
            /\ inbox[s] # <<>>
            /\ inbox[s][1].users = getRoomUsers(rooms, c)

(***************************************************************************)
(* Every command of a room side by side: membership, playback, queue,      *)
(* requests and chat on the room of RoomInit.                              *)
(***************************************************************************)
FrameSenders == {"s1", "s2"}
FrameLeavers == {"s1", "s3"}

FrameNext ==
    /\ ncmd' = ncmd
    /\ \/ join_room("s3", RoomCode, <<>>, TRUE)
       \/ \E s \in FrameLeavers : disconnect(s)
       \/ Playback(FrameSenders, {RoomCode}, Tracks)
       \/ timeout
       \/ Queue(FrameSenders, {RoomCode}, {"T1"})
       \/ Chat({"s2"}, {RoomCode}, {<<"h", "i">>})
    /\ inbox' = inbox
    /\ page' = page
    /\ wire' = wire

SpecFrame == RoomInit /\ [][FrameNext]_vars

\* The steps that may change the current track of the room: load_track,
\* track_ended and approve_request with addToQueue false, from its host.
SetsTrack ==
    \E s \in Sockets :
        /\ IsHostOf(s, RoomCode)
        /\ \/ \E t \in Tracks : load_track(s, RoomCode, t)
           \/ track_ended(s, RoomCode)
           \/ \E i \in RequestIndices : approve_request(s, RoomCode, i, FALSE)

\* A play, pause or seek command from any socket.
Relayed ==
    \E s \in Sockets, time \in RelayTimes :
        \/ play(s, RoomCode, time)
        \/ pause(s, RoomCode, time)
        \/ seek(s, RoomCode, time)

\* C28: while the room exists its current track changes only in a step
\* that is a load_track, a track_ended or an approve_request with
\* addToQueue false sent by its host; every other command leaves it as it
\* was, and play, pause and seek leave the whole state of every room, the
\* membership and the pending timers as they were.
C28_TrackFrame ==
    [][/\ (Live(RoomCode) /\ RoomCode \in DOMAIN rooms'
           /\ After.currentTrack # Before.currentTrack) => SetsTrack
       /\ Relayed => UNCHANGED <<rooms, roomKeys, sio, timers, conn>>]_vars

\* The host sent play while a track was current, and the room was told.
C28_Witness ==
    /\ cmd.op = "play"
    /\ out # <<>>
    /\ Live(RoomCode)
    /\ rooms[RoomCode].currentTrack # Null
    /\ rooms[RoomCode].queue # <<>>

(***************************************************************************)
(* Queue order.  The host adds tracks in a known order, the n-th add being *)
(* Order(n), and reports the end of tracks in between; nothing is removed  *)
(* and no request is approved.  ncmd counts the tracks added.              *)
(***************************************************************************)
Order(n) == IF n % 2 = 1 THEN "T1" ELSE "T2"

FifoNext ==
    /\ \/ /\ ncmd < MaxCmds
          /\ ncmd' = ncmd + 1
          /\ add_to_queue("s1", RoomCode, Order(ncmd'))
       \/ /\ ncmd' = ncmd
          /\ \/ \E t \in QueueTracks : add_to_queue("s2", RoomCode, t)
             \/ add_to_queue("s1", RoomCode, Undefined)
             \/ \E s \in FrameSenders : track_ended(s, RoomCode)
             \/ timeout
             \/ join_room("s3", RoomCode, <<>>, TRUE)
             \/ disconnect("s3")
    /\ inbox' = inbox
    /\ page' = page
    /\ wire' = wire

SpecFifo == RoomInit /\ [][FifoNext]_vars

\* The tracks added so far, oldest first.
Added == [n \in 1..ncmd |-> Order(n)]

\* The number of tracks that left the queue to become current.
Started == ncmd - Len(rooms[RoomCode].queue)

\* C29: add_to_queue(track) from the host puts the track at the tail of
\* the queue and sends the whole new queue as queue_update to every member,
\* the host included; and with no removal and no play-now approval the
\* queue is always the tracks added and not yet started, in the order they
\* were added, and the current track is the last one started (or none,
\* after a track_ended on an empty queue).
C29_Fifo ==
    /\ [](/\ rooms[RoomCode].queue = SubSeq(Added, Started + 1, ncmd)
          /\ \/ rooms[RoomCode].currentTrack = Null
             \/ /\ Started >= 1
                /\ rooms[RoomCode].currentTrack = Added[Started])
    /\ [][\A t \in Tracks :
             add_to_queue("s1", RoomCode, t) =>
                /\ After.queue = Append(Before.queue, t)
                /\ out' = <<[ev |-> "queue_update",
                             to |-> {s \in Sockets : HasUser(After, s)},
                             queue |-> After.queue]>>
                /\ "s1" \in out'[1].to]_vars

\* Three tracks were added and two of them have ended in turn: the second
\* one added is current, the third one waits.
C29_Witness ==
    /\ cmd.op = "track_ended"
    /\ ncmd = 3
    /\ rooms[RoomCode].currentTrack = "T2"
    /\ rooms[RoomCode].queue = <<"T1">>

(***************************************************************************)
(* Commands in flight.  The host's page sends track_ended and              *)
(* remove_from_queue(index) before the server has handled either; node     *)
(* runs one listener at a time to its end (no handler awaits), so the      *)
(* server handles them one after the other, in either order, and the       *)
(* auto-play timer may run in between.                                     *)
(***************************************************************************)
InFlight == {"track_ended", "remove_from_queue"}

\* socket.emit("track_ended") and socket.emit("remove_from_queue") on the
\* host's page, nothing being in flight
Send(index) ==
    /\ wire = <<>>
    /\ wire' = <<[at |-> rooms[RoomCode], index |-> index, sent |-> InFlight]>>
    /\ UNCHANGED <<conn, rooms, roomKeys, sio, timers, cmd, out>>

\* The server handles one command that is in flight.
Handle(op) ==
    /\ wire # <<>>
    /\ op \in wire[1].sent
    /\ wire' = <<[wire[1] EXCEPT !.sent = @ \ {op}]>>
    /\ IF op = "track_ended" THEN track_ended("s1", RoomCode)
       ELSE remove_from_queue("s1", RoomCode, wire[1].index)

\* Both commands are handled; the next pair can be sent.
Settle ==
    /\ wire # <<>>
    /\ wire[1].sent = {}
    /\ wire' = <<>>
    /\ UNCHANGED <<conn, rooms, roomKeys, sio, timers, cmd, out>>

LinNext ==
    /\ ncmd' = ncmd
    /\ \/ /\ wire = <<>>
          /\ wire' = wire
          /\ \E t \in Tracks : add_to_queue("s1", RoomCode, t)
       \/ \E index \in Indices : Send(index)
       \/ Handle("track_ended")
       \/ Handle("remove_from_queue")
       \/ Settle
       \/ timeout /\ wire' = wire
    /\ inbox' = inbox
    /\ page' = page

SpecLin == RoomInit /\ [][LinNext]_vars

\* track_ended applied to a room, as one sequential step
Ended(room) ==
    IF room.queue = <<>> THEN [room EXCEPT !.currentTrack = Null]
    ELSE [room EXCEPT !.currentTrack = room.queue[1],
                      !.queue = SubSeq(room.queue, 2, Len(room.queue))]

\* remove_from_queue(index) applied to a room, as one sequential step:
\* splice(index, 1) counts a negative index from the end and removes
\* nothing at an index past the end.
Removed(room, index) ==
    LET len == Len(room.queue)
        at == IF index < 0 THEN Max(len + index, 0) ELSE index
    IN  [room EXCEPT !.queue =
            [k \in 1..(IF at < len THEN len - 1 ELSE len) |->
                IF k <= at THEN room.queue[k] ELSE room.queue[k + 1]]]

\* C30: once the server has handled a track_ended and a
\* remove_from_queue(index) that were in flight together, the room's queue
\* and current track (and the rest of the room) are what the two commands
\* give when applied one after the other to the room as it was, in one of
\* the two orders.
C30_Linearized ==
    (wire # <<>> /\ wire[1].sent = {}) =>
        \/ rooms[RoomCode] = Removed(Ended(wire[1].at), wire[1].index)
        \/ rooms[RoomCode] = Ended(Removed(wire[1].at, wire[1].index))

\* Both commands were handled on a queue of two tracks where the order
\* matters: removing index 0 first and then ending leaves another state
\* than ending first, and the server reached the former.
C30_Witness ==
    /\ wire # <<>>
    /\ wire[1].sent = {}
    /\ Len(wire[1].at.queue) = 2
    /\ wire[1].index = 0
    /\ Removed(Ended(wire[1].at), 0) # Ended(Removed(wire[1].at, 0))
    /\ rooms[RoomCode] = Ended(Removed(wire[1].at, 0))

(***************************************************************************)
(* Two room codes.  Beside the room of RoomInit, s3 creates rooms under    *)
(* either code the generator can draw (a code is free again once its room  *)
(* was deleted).  Commands go to the code of RoomInit, from its members    *)
(* and from s3; s3 enters a room only by creating it.                      *)
(***************************************************************************)
TwoNext ==
    /\ ncmd' = ncmd
    /\ \/ \E r \in Randoms : create_room("s3", <<>>, TRUE, r)
       \/ join_room("s2", RoomCode, <<>>, TRUE)
       \/ \E s \in {"s1", "s2"} : disconnect(s)
       \/ Playback(Sockets, {RoomCode}, {"T1"})
       \/ timeout
       \/ Queue({"s1", "s3"}, {RoomCode}, {"T1"})
       \/ Chat(Sockets, {RoomCode}, {<<"h", "i">>})
    /\ inbox' = inbox
    /\ page' = page
    /\ wire' = wire

SpecTwo == RoomInit /\ [][TwoNext]_vars

\* C31: the play(0) set up by a track_ended of s1 or s2 in the room of
\* RoomInit reaches members of that room only. s3 is in a room with that
\* code only after creating it, the first room being deleted, so the
\* deferred play must never be sent to s3.
C31_SameInstance ==
    (cmd.op = "timeout" /\ cmd.s \in {"s1", "s2"} /\ cmd.roomCode = RoomCode)
        => \A i \in 1..Len(out) : "s3" \notin out[i].to

\* C32: when the deferred play(0) of an auto-advance is broadcast, the
\* room's current track is the track the auto-advance loaded. Under
\* SpecFrame every queued track is "T1", so that is the track every
\* auto-advance loads.
C32_StillLoaded ==
    cmd.op = "timeout" => rooms[RoomCode].currentTrack = "T1"

\* C34: when the host of the room disconnects and the room lives on, the
\* room's current track, queue, pending requests and chat history are what
\* they were; only the membership loses the old host and the host becomes
\* a remaining member.
C34_MigrationKeeps ==
    [][\A s \in Sockets :
          (disconnect(s) /\ IsHostOf(s, RoomCode) /\ RoomCode \in DOMAIN rooms')
          => /\ After.currentTrack = Before.currentTrack
             /\ After.queue = Before.queue
             /\ After.requests = Before.requests
             /\ After.messages = Before.messages
             /\ After.users = DeleteUser(Before.users, s)
             /\ After.host # s
             /\ HasUser(After, After.host)]_vars

\* The host left a room with a track loaded, a queue, a pending request
\* and chat history, and s2 is host now.
C34_Witness ==
    /\ cmd.op = "disconnect"
    /\ cmd.s = "s1"
    /\ Live(RoomCode)
    /\ rooms[RoomCode].host = "s2"
    /\ rooms[RoomCode].currentTrack # Null
    /\ rooms[RoomCode].queue # <<>>
    /\ rooms[RoomCode].requests # <<>>
    /\ rooms[RoomCode].messages # <<>>

\* C40: the isHost value in a successful create_room or join_room
\* acknowledgement says whether the acknowledged socket is the host of the
\* acknowledged room at that moment, and the socket has one membership
\* entry in that room.
C40_AckAgrees ==
    cmd.op \in {"create_room", "join_room"} =>
        \A i \in 1..Len(out) :
            (out[i].ev = "ack" /\ out[i].success) =>
                /\ out[i].isHost = (rooms[out[i].roomCode].host = cmd.s)
                /\ Cardinality({j \in 1..Len(rooms[out[i].roomCode].users) :
                       rooms[out[i].roomCode].users[j].id = cmd.s}) = 1

\* C37: whenever the host's player hands its change to ENDED to
\* onStateChange, the page emits track_ended, whatever the state of the
\* flag isSyncingRef.
C37_EndReported ==
    [][\A hidden \in BOOLEAN :
          (/\ page.events # <<>>
           /\ Head(page.events).data = YT_ENDED
           /\ onStateChange(hidden))
          => page'.emitted =
                Emit("track_ended", "onStateChange", Head(page.events).cause)]_vars

\* C39: a step that handles a command addressed to the code RoomCode (the
\* deferred play of a track_ended included) leaves every other room as it
\* was, with the same sockets in its adapter room, and emits nothing to a
\* socket that is a member of another room and not of the room at RoomCode.
C39_Isolated ==
    [][cmd'.roomCode = RoomCode =>
          \A c \in DOMAIN rooms \ {RoomCode} :
             /\ c \in DOMAIN rooms'
             /\ rooms'[c] = rooms[c]
             /\ sio'[c] = sio[c]
             /\ \A s \in Sockets :
                   (/\ HasUser(rooms[c], s)
                    /\ ~(Live(RoomCode) /\ HasUser(rooms[RoomCode], s))
                    /\ ~(RoomCode \in DOMAIN rooms' /\ HasUser(rooms'[RoomCode], s)))
                   => \A i \in 1..Len(out') : s \notin out'[i].to]_vars

\* The host of the room at RoomCode loaded a track and its guest was told,
\* while s3 sat alone in a room under the other code.
C39_Witness ==
    /\ cmd.op = "load_track"
    /\ cmd.roomCode = RoomCode
    /\ Live(RoomCode)
    /\ out # <<>>
    /\ out[1].to # {}
    /\ ~HasUser(rooms[RoomCode], "s3")
    /\ \E c \in DOMAIN rooms \ {RoomCode} : HasUser(rooms[c], "s3")

(***************************************************************************)
(* What the pages show.  inbox[s] holds the track and queue state of the   *)
(* page of socket s (empty: the initial null track and empty queue), set   *)
(* by its load_track and queue_update listeners and, on the host's page,   *)
(* by handleSelectTrack.  The members are those of RoomInit.               *)
(***************************************************************************)
Shows(box, s) ==
    IF box[s] = <<>> THEN [track |-> Null, queue |-> <<>>] ELSE box[s][1]

\* socket.on("load_track", setTrack) and socket.on("queue_update", setQueue)
\* for the events of one step, in the order they were emitted
Shown(box, emits) ==
    [s \in Sockets |->
        LET mine == SelectSeq(emits, LAMBDA e : s \in e.to)
            loads == SelectSeq(mine, LAMBDA e : e.ev = "load_track")
            updates == SelectSeq(mine, LAMBDA e : e.ev = "queue_update")
        IN  IF loads = <<>> /\ updates = <<>> THEN box[s]
            ELSE <<[track |-> IF loads = <<>> THEN Shows(box, s).track
                              ELSE loads[Len(loads)].track,
                    queue |-> IF updates = <<>> THEN Shows(box, s).queue
                              ELSE updates[Len(updates)].queue]>>]

\* handleSelectTrack on the page of s: setTrack(trackData), setQueue([]),
\* socket.emit("load_track"), and the server's load_track handler
handleSelectTrack(s, roomCode, trackData) ==
    /\ load_track(s, roomCode, trackData)
    /\ inbox' = Shown([inbox EXCEPT
                          ![s] = <<[track |-> trackData, queue |-> <<>>]>>],
                      out')

ViewNext ==
    /\ ncmd' = ncmd
    /\ \/ \E t \in Tracks : handleSelectTrack("s1", RoomCode, t)
       \/ /\ \/ Queue({"s1", "s2"}, {RoomCode}, {"T1"})
             \/ \E s \in {"s1", "s2"} : track_ended(s, RoomCode)
             \/ timeout
          /\ inbox' = Shown(inbox, out')
    /\ page' = page
    /\ wire' = wire

SpecView == RoomInit /\ [][ViewNext]_vars

\* C35: in every state (every broadcast is delivered in the step that
\* emits it) the queue each member's page shows is the room's queue.
C35_QueueShown ==
    \A s \in Sockets :
        HasUser(rooms[RoomCode], s) =>
            Shows(inbox, s).queue = rooms[RoomCode].queue

\* C36: in every state the track each member's page shows is the room's
\* current track.
C36_TrackShown ==
    \A s \in Sockets :
        HasUser(rooms[RoomCode], s) =>
            Shows(inbox, s).track = rooms[RoomCode].currentTrack

(***************************************************************************)
(* A guest joins.  The host s1 has a track loaded and its player ready;    *)
(* s3 joins and its page mounts a player that becomes ready later.  page   *)
(* is the host's page with two more fields:                                *)
(*   reassert : the timers set by the host's user_joined listener, each    *)
(*              with the isPlaying its closure captured                    *)
(*   guest    : the page of s3: playerRef set or not, pendingPlayRef (<<>> *)
(*              for null), isPlaying, its player, and the last play or     *)
(*              pause event it received                                    *)
(* inbox[s] holds the events sent to s that its page has not handled yet.  *)
(* An emit of the host and the server's handling of it are one step.       *)
(***************************************************************************)
ClientInit ==
    /\ conn = [s \in Sockets |-> "open"]
    /\ rooms = [c \in {RoomCode} |->
                   [host |-> "s1",
                    users |-> <<[id |-> "s1", name |-> HostDefault]>>,
                    currentTrack |-> "T1", queue |-> <<>>,
                    messages |-> <<>>, requests |-> <<>>]]
    /\ roomKeys = <<RoomCode>>
    /\ sio = [c \in Codes |-> IF c = RoomCode THEN {"s1"} ELSE {}]
    /\ timers = <<>>
    /\ cmd = [op |-> "none", s |-> "none", roomCode |-> <<>>]
    /\ out = <<>>
    /\ ncmd = 0
    /\ inbox = [s \in Sockets |-> <<>>]
    /\ page = PageIdle @@
              [reassert |-> <<>>,
               guest |-> [playerRef |-> FALSE, pendingPlayRef |-> <<>>,
                          isPlaying |-> FALSE, player |-> "paused",
                          heard |-> "none"]]
    /\ wire = <<>>

\* socket.on("user_joined") on the host's page: emit load_track now, set
\* the timer whose callback reads the isPlaying of this render
onUserJoined ==
    /\ inbox["s1"] # <<>>
    /\ Head(inbox["s1"]).m.ev = "user_joined"
    /\ rooms[RoomCode].currentTrack # Null
    /\ load_track("s1", RoomCode, rooms[RoomCode].currentTrack)
    /\ inbox' = Deliver([inbox EXCEPT !["s1"] = Tail(@)], out', "s1", 0, FALSE)
    /\ page' = [page EXCEPT
                   !.reassert = Append(@, [isPlaying |-> page.isPlaying])]

\* The callback of that timer: emit seek, then emit play if the captured
\* isPlaying is true.  The two emits are one turn of the page, so the
\* server handles them back to back; cmd records the last one.
reassert ==
    /\ page.reassert # <<>>
    /\ LET sought == <<[ev |-> "seek", to |-> SocketTo(sio, "s1", RoomCode),
                        time |-> 12]>>
       IN  IF Head(page.reassert).isPlaying
           THEN /\ play("s1", RoomCode, 12)
                /\ inbox' = Deliver(Deliver(inbox, sought, "s1", 0, FALSE),
                                    out', "s1", 0, FALSE)
           ELSE /\ seek("s1", RoomCode, 12)
                /\ inbox' = Deliver(inbox, out', "s1", 0, FALSE)
    /\ page' = [page EXCEPT !.reassert = Tail(@)]

\* The page of s handles the oldest event sent to it: on the guest's page
\* the load_track, play, pause and seek listeners (seek changes neither
\* isPlaying nor the player's state); every other event changes nothing
\* that is modelled here.
hear(s) ==
    /\ inbox[s] # <<>>
    /\ ~(s = "s1" /\ Head(inbox[s]).m.ev = "user_joined")
    /\ inbox' = [inbox EXCEPT ![s] = Tail(@)]
    /\ LET m == Head(inbox[s]).m
           g == page.guest
       IN  page' =
             IF s # "s3" THEN page
             ELSE IF m.ev = "load_track"
                  THEN [page EXCEPT !.guest.isPlaying = FALSE]
             ELSE IF m.ev = "play"
                  THEN IF g.playerRef
                       THEN [page EXCEPT !.guest.isPlaying = TRUE,
                                         !.guest.player = "playing",
                                         !.guest.heard = "play"]
                       ELSE [page EXCEPT !.guest.pendingPlayRef = <<m.time>>,
                                         !.guest.heard = "play"]
             ELSE IF m.ev = "pause"
                  THEN IF g.playerRef
                       THEN [page EXCEPT !.guest.isPlaying = FALSE,
                                         !.guest.player = "paused",
                                         !.guest.heard = "pause"]
                       ELSE [page EXCEPT !.guest.heard = "pause"]
             ELSE page
    /\ UNCHANGED <<engine, cmd, out>>

\* onPlayerReady on the guest's page
onPlayerReady ==
    /\ HasUser(rooms[RoomCode], "s3")
    /\ ~page.guest.playerRef
    /\ page' = IF page.guest.pendingPlayRef # <<>>
               THEN [page EXCEPT !.guest.playerRef = TRUE,
                                 !.guest.pendingPlayRef = <<>>,
                                 !.guest.isPlaying = TRUE,
                                 !.guest.player = "playing"]
               ELSE [page EXCEPT !.guest.playerRef = TRUE]
    /\ UNCHANGED <<engine, cmd, out, inbox>>

ClientNext ==
    /\ ncmd' = ncmd
    /\ wire' = wire
    /\ \/ /\ ~HasUser(rooms[RoomCode], "s3")
          /\ join_room("s3", RoomCode, <<>>, TRUE)
          /\ inbox' = Deliver(inbox, out', "s3", 0, FALSE)
          /\ page' = page
       \/ onUserJoined
       \/ reassert
       \/ /\ handlePlay
          /\ play("s1", RoomCode, 12)
          /\ inbox' = Deliver(inbox, out', "s1", 0, FALSE)
       \/ /\ handlePause
          /\ pause("s1", RoomCode, 12)
          /\ inbox' = Deliver(inbox, out', "s1", 0, FALSE)
       \/ syncTimeout /\ UNCHANGED <<engine, cmd, out, inbox>>
       \/ \E s \in {"s1", "s3"} : hear(s)
       \/ onPlayerReady

SpecClient == ClientInit /\ [][ClientNext]_vars

\* C33: once the guest has joined, its player is ready, no event is
\* waiting for either page, and no timer of the host's reassertion is
\* pending, the guest's isPlaying is the host's.
C33_SameIntent ==
    (/\ HasUser(rooms[RoomCode], "s3")
     /\ inbox["s1"] = <<>>
     /\ inbox["s3"] = <<>>
     /\ page.reassert = <<>>
     /\ page.guest.playerRef
     /\ page.guest.pendingPlayRef = <<>>)
    => page.guest.isPlaying = page.isPlaying

\* C38: when the guest's player becomes ready and starts playing, the last
\* play or pause event the guest received was a play.
C38_PauseCancels ==
    [][(onPlayerReady /\ page'.guest.player = "playing")
          => page.guest.heard = "play"]_vars

====
